---- MODULE Spec2Model ----
(***************************************************************************)
(* Model of the record segmenter of python_scripts/docx_to_database.py:    *)
(*   DocumentProcessor.find_bandit_patterns_in_lines   (pattern matcher)   *)
(*   DocumentProcessor.extract_text_with_placeholders  (deduplication)     *)
(*   DocumentProcessor.split_text_by_bandits           (chunk builder)     *)
(* and, each with a specification of its own, of                           *)
(*   insert_to_supabase.py main                        (SpecInsert)        *)
(*   DocumentProcessor.process_with_ai                 (SpecAi)            *)
(*   DocumentProcessor.geocode_address                 (SpecGeo)           *)
(*   DocumentProcessor.process_document                (SpecDoc)           *)
(*                                                                         *)
(* A Python str is a sequence of one-character strings; a list is a        *)
(* sequence; None is the empty option <<>> and a present value v is <<v>>. *)
(* Line indices are 0-based as in the source: line i is lines[i + 1].      *)
(* A value used more than once is passed to a helper operator as an        *)
(* argument, so every local of the source is a parameter here.             *)
(***************************************************************************)
EXTENDS Integers, Sequences, FiniteSets, TLC

(***************************************************************************)
(* Python values and string primitives                                     *)
(***************************************************************************)
None == <<>>
Some(v) == <<v>>

UpperLetters ==
    <<"A","B","C","D","E","F","G","H","I","J","K","L","M",
      "N","O","P","Q","R","S","T","U","V","W","X","Y","Z">>
LowerLetters ==
    <<"a","b","c","d","e","f","g","h","i","j","k","l","m",
      "n","o","p","q","r","s","t","u","v","w","x","y","z">>
Digits == {"0","1","2","3","4","5","6","7","8","9"}

Range(s) == {s[k] : k \in DOMAIN s}
UpperSet == Range(UpperLetters)
LetterSet == Range(UpperLetters) \cup Range(LowerLetters)

\* str.isspace for one character (the whitespace str.strip / str.split / \s use)
IsSpace(c) == c \in {" ", "\t", "\n", "\r"}
\* \d for one character
IsDigit(c) == c \in Digits
\* str.isupper for one character
IsUpper(c) == c \in UpperSet
\* str.isalpha for one character
IsAlphaChar(c) == c \in LetterSet
\* str.isalpha: non-empty and every character alphabetic
IsAlpha(s) == Len(s) > 0 /\ \A k \in 1..Len(s) : IsAlphaChar(s[k])

\* str.lower
LowerChar(c) ==
    IF IsUpper(c)
    THEN LowerLetters[CHOOSE k \in 1..26 : UpperLetters[k] = c]
    ELSE c
Lower(s) == [k \in 1..Len(s) |-> LowerChar(s[k])]

\* s[k:] starts with sub (k is a 1-based position)
StartsAt(s, sub, k) ==
    /\ k + Len(sub) - 1 <= Len(s)
    /\ \A m \in 1..Len(sub) : s[k + m - 1] = sub[m]
\* sub in s
Contains(s, sub) == \E k \in 1..(Len(s) + 1) : StartsAt(s, sub, k)

\* str.strip()
Strip(s) ==
    IF \A k \in 1..Len(s) : IsSpace(s[k]) THEN <<>>
    ELSE SubSeq(s,
                CHOOSE k \in 1..Len(s) :
                    ~IsSpace(s[k]) /\ \A m \in 1..(k - 1) : IsSpace(s[m]),
                CHOOSE k \in 1..Len(s) :
                    ~IsSpace(s[k]) /\ \A m \in (k + 1)..Len(s) : IsSpace(s[m]))

\* the elements of a finite set of integers in increasing order
Sorted(S) ==
    [m \in 1..Cardinality(S) |->
        CHOOSE k \in S : Cardinality({n \in S : n < k}) = m - 1]

\* the last character of the word that starts at k
WordEnd(s, k) ==
    CHOOSE e \in k..Len(s) :
        /\ \A m \in k..e : ~IsSpace(s[m])
        /\ (e = Len(s) \/ IsSpace(s[e + 1]))
WordsAt(s, starts) ==
    [m \in 1..Len(starts) |-> SubSeq(s, starts[m], WordEnd(s, starts[m]))]
\* str.split(): the maximal runs of non-whitespace characters
Split(s) ==
    WordsAt(s, Sorted({k \in 1..Len(s) :
                          ~IsSpace(s[k]) /\ (k = 1 \/ IsSpace(s[k - 1]))}))

PartsAt(s, cuts) ==
    [m \in 1..(Len(cuts) + 1) |->
        SubSeq(s,
               IF m = 1 THEN 1 ELSE cuts[m - 1] + 1,
               IF m = Len(cuts) + 1 THEN Len(s) ELSE cuts[m] - 1)]
\* str.split(sep) for a one-character separator: empty parts are kept
SplitOn(s, sep) == PartsAt(s, Sorted({k \in 1..Len(s) : s[k] = sep}))

\* sep.join(parts)
RECURSIVE JoinFrom(_, _, _, _)
JoinFrom(parts, sep, k, acc) ==
    IF k > Len(parts) THEN acc
    ELSE JoinFrom(parts, sep, k + 1,
                  IF k = 1 THEN parts[k] ELSE acc \o sep \o parts[k])
Join(parts, sep) == JoinFrom(parts, sep, 1, <<>>)

(***************************************************************************)
(* The two regular expressions                                             *)
(***************************************************************************)
AgeLiteral == <<"A","g","e",":">>
ImageLiteral == <<"[","I","M","A","G","E",":">>

\* first position >= k that is not whitespace (Len(s) + 1 when there is none)
SkipSpaces(s, k) ==
    IF \A m \in k..Len(s) : IsSpace(s[m]) THEN Len(s) + 1
    ELSE CHOOSE m \in k..Len(s) :
             ~IsSpace(s[m]) /\ \A n \in k..(m - 1) : IsSpace(s[n])

DigitAt(s, d) == d <= Len(s) /\ IsDigit(s[d])
\* r'Age:\s*(\d+)' matches at position k
AgeMatchAt(s, k) ==
    StartsAt(s, AgeLiteral, k) /\ DigitAt(s, SkipSpaces(s, k + 4))
\* the maximal run of digits that starts at d
DigitRun(s, d) ==
    SubSeq(s, d, CHOOSE m \in d..Len(s) :
                     /\ \A n \in d..m : IsDigit(s[n])
                     /\ (m = Len(s) \/ ~IsDigit(s[m + 1])))
\* re.search(r'Age:\s*(\d+)', s): group(1) of the leftmost match, or None
AgeSearch(s) ==
    IF \E k \in 1..Len(s) : AgeMatchAt(s, k)
    THEN Some(DigitRun(s, SkipSpaces(s,
             4 + CHOOSE k \in 1..Len(s) :
                     AgeMatchAt(s, k) /\ \A h \in 1..(k - 1) : ~AgeMatchAt(s, h))))
    ELSE None

\* the first "]" at or after position p
FirstClose(s, p) ==
    CHOOSE m \in p..Len(s) : s[m] = "]" /\ \A n \in p..(m - 1) : s[n] # "]"
\* r'\[IMAGE:\s*([^]]+)\]' matches at position k
ImageMatchAt(s, k) ==
    /\ StartsAt(s, ImageLiteral, k)
    /\ \E m \in (k + 7)..Len(s) : s[m] = "]"
    /\ FirstClose(s, k + 7) > k + 7
\* group(1) of the match whose text after "[IMAGE:" is s[p..e]: \s* is
\* greedy but gives one character back when s[p..e] is all whitespace
ImageGroup(s, d, e) == SubSeq(s, IF d > e THEN e ELSE d, e)
ImageGroupAt(s, k) ==
    ImageGroup(s, SkipSpaces(s, k + 7), FirstClose(s, k + 7) - 1)
\* re.search(r'\[IMAGE:\s*([^]]+)\]', s): group(1) of the leftmost match, or None
ImageSearch(s) ==
    IF \E k \in 1..Len(s) : ImageMatchAt(s, k)
    THEN Some(ImageGroupAt(s,
             CHOOSE k \in 1..Len(s) :
                 ImageMatchAt(s, k) /\ \A h \in 1..(k - 1) : ~ImageMatchAt(s, h)))
    ELSE None

(***************************************************************************)
(* find_bandit_patterns_in_lines                                           *)
(***************************************************************************)
MAX_BANDITS == 500
\* range(i-1, max(i-10, start_index-1), -1) looks at no line at or before
\* max(i - LookbackStop, start_index - 1)
LookbackStop == 10

Max2(a, b) == IF a >= b THEN a ELSE b

\* variant: the first letter need not be a capital
IsNameWordsAnyCase(words) ==
    /\ Len(words) = 1
    /\ IsAlpha(words[1])
    /\ Len(words[1]) > 1

\* the test on words of the name test
IsNameWords(words) ==
    /\ Len(words) = 1
    /\ IsUpper(words[1][1])
    /\ IsAlpha(words[1])
    /\ Len(words[1]) > 1

\* the name test of the backward scan, on a stripped line
IsNameLine(line_stripped) ==
    /\ line_stripped # <<>>
    /\ ~Contains(line_stripped, ImageLiteral)
    /\ IsNameWords(Split(line_stripped))

\* the image test of the backward scan, on a stripped line
IsImageLine(line_stripped) ==
    /\ Contains(line_stripped, ImageLiteral)
    /\ ImageSearch(line_stripped) # None

\* variant: the scan has no window and runs back to start_index
ScanStopNoWindow(i, start_index) == start_index - 1

\* variant: the scan looks at the line above the age line only
ScanStopOneLine(i, start_index) == Max2(i - 2, start_index - 1)

\* variant: the window is twice as long
ScanStopDoubleWindow(i, start_index) ==
    Max2(i - 2 * LookbackStop, start_index - 1)

\* variant: the scan runs past start_index
ScanStopIgnoresStart(i, start_index) == Max2(i - LookbackStop, 0 - 1)

\* exclusive lower end of the backward scan for the age line i
ScanStop(i, start_index) == Max2(i - LookbackStop, start_index - 1)

\* variant: a name line replaces a name found nearer to the age line
NextNameFarther(found_name, j, line_stripped) ==
    IF IsNameLine(line_stripped)
    THEN Some([line_index |-> j, name |-> line_stripped])
    ELSE found_name

\* found_name after line j of the backward scan
NextName(found_name, j, line_stripped) ==
    IF found_name = None /\ IsNameLine(line_stripped)
    THEN Some([line_index |-> j, name |-> line_stripped])
    ELSE found_name

\* found_image after line j of the backward scan
NextImage(found_image, j, line_stripped) ==
    IF IsImageLine(line_stripped) /\ found_image = None
    THEN Some([line_index |-> j,
               image_id |-> ImageSearch(line_stripped)[1],
               image_line |-> line_stripped])
    ELSE found_image

\* the backward loop "for j in range(i-1, stop, -1)" with its early break
RECURSIVE ScanBack(_, _, _, _, _)
RECURSIVE ScanLine(_, _, _, _, _)
ScanLine(lines, j, stop, found_name, found_image) ==
    IF found_name # None /\ found_image # None
    THEN [found_name |-> found_name, found_image |-> found_image]
    ELSE ScanBack(lines, j - 1, stop, found_name, found_image)
ScanBack(lines, j, stop, found_name, found_image) ==
    IF j <= stop THEN [found_name |-> found_name, found_image |-> found_image]
    ELSE ScanLine(lines, j, stop,
                  NextName(found_name, j, Strip(lines[j + 1])),
                  NextImage(found_image, j, Strip(lines[j + 1])))

\* line i carries an age marker: 'Age:' in line and the regex matches
IsAgeLine(line) == Contains(line, AgeLiteral) /\ AgeSearch(line) # None

\* "if found_name and found_image: pattern = {...}".  age_line_index is not
\* a key of the source's dict: it records which iteration appended the
\* pattern.
PatternOf(i, age_value, f) ==
    IF f.found_name # None /\ f.found_image # None
    THEN Some([line_index |-> f.found_image[1].line_index,
               image_id |-> f.found_image[1].image_id,
               name |-> f.found_name[1].name,
               age |-> age_value,
               name_line_index |-> f.found_name[1].line_index,
               image_line |-> f.found_image[1].image_line,
               age_line_index |-> i])
    ELSE None

\* the pattern the age line i yields, or None
PatternAt(lines, i, start_index) ==
    IF ~IsAgeLine(lines[i + 1]) THEN None
    ELSE PatternOf(i, AgeSearch(lines[i + 1])[1],
                   ScanBack(lines, i - 1, ScanStop(i, start_index), None, None))

\* "if max_bandits and len(found_patterns) >= max_bandits": None and 0 are falsy
MaxReached(max_bandits, n) ==
    max_bandits # None /\ max_bandits[1] # 0 /\ n >= max_bandits[1]

\* the forward loop "for i, line in enumerate(lines[start_index:], start_index)"
RECURSIVE FindFrom(_, _, _, _, _)
RECURSIVE FindLine(_, _, _, _, _, _)
\* variant: a pattern whose image line or name line an earlier pattern holds
\* is not appended
FindLineConsumes(lines, start_index, max_bandits, i, found_patterns, p) ==
    IF p = None
    THEN FindFrom(lines, start_index, max_bandits, i + 1, found_patterns)
    ELSE IF \E k \in 1..Len(found_patterns) :
                \/ found_patterns[k].line_index = p[1].line_index
                \/ found_patterns[k].name_line_index = p[1].name_line_index
         THEN FindFrom(lines, start_index, max_bandits, i + 1, found_patterns)
         ELSE IF MaxReached(max_bandits, Len(found_patterns) + 1)
              THEN Append(found_patterns, p[1])
              ELSE FindFrom(lines, start_index, max_bandits, i + 1,
                            Append(found_patterns, p[1]))

\* variant: a new pattern is put in front of the list
FindLineInFront(lines, start_index, max_bandits, i, found_patterns, p) ==
    IF p = None
    THEN FindFrom(lines, start_index, max_bandits, i + 1, found_patterns)
    ELSE IF MaxReached(max_bandits, Len(found_patterns) + 1)
         THEN <<p[1]>> \o found_patterns
         ELSE FindFrom(lines, start_index, max_bandits, i + 1,
                       <<p[1]>> \o found_patterns)
FindLine(lines, start_index, max_bandits, i, found_patterns, p) ==
    IF p = None
    THEN FindFrom(lines, start_index, max_bandits, i + 1, found_patterns)
    ELSE IF MaxReached(max_bandits, Len(found_patterns) + 1)
         THEN Append(found_patterns, p[1])
         ELSE FindFrom(lines, start_index, max_bandits, i + 1,
                       Append(found_patterns, p[1]))
FindFrom(lines, start_index, max_bandits, i, found_patterns) ==
    IF i >= Len(lines) THEN found_patterns
    ELSE FindLine(lines, start_index, max_bandits, i, found_patterns,
                  PatternAt(lines, i, start_index))

find_bandit_patterns_in_lines(lines, start_index, max_bandits) ==
    FindFrom(lines, start_index, max_bandits, start_index, <<>>)

(***************************************************************************)
(* extract_text_with_placeholders: the duplicate suppression               *)
(***************************************************************************)
Underscore == <<"_">>

\* variant: the key leaves the image id out
BanditKeyNameAge(pattern) ==
    pattern.name \o Underscore \o pattern.age

\* f"{pattern['name']}_{pattern['age']}_{pattern['image_id']}"
BanditKey(pattern) ==
    pattern.name \o Underscore \o pattern.age \o Underscore \o pattern.image_id

\* variant: the key is appended without the membership test
AddBanditAlways(found_bandits, bandit_key) ==
    Append(found_bandits, bandit_key)

\* "if bandit_key not in found_bandits: found_bandits.append(bandit_key)"
AddBandit(found_bandits, bandit_key) ==
    IF bandit_key \in Range(found_bandits) THEN found_bandits
    ELSE Append(found_bandits, bandit_key)

\* the loop "for pattern in patterns"
RECURSIVE DedupFrom(_, _, _)
DedupFrom(patterns, k, found_bandits) ==
    IF k > Len(patterns) THEN found_bandits
    ELSE DedupFrom(patterns, k + 1, AddBandit(found_bandits, BanditKey(patterns[k])))

(***************************************************************************)
(* split_text_by_bandits                                                   *)
(***************************************************************************)
\* a section is kept only if len('\n'.join(section).strip()) > MinContent
MinContent == 100
\* chunk_size = len(lines) // FallbackParts
FallbackParts == 10

Newline == <<"\n">>
NoneText == <<"N","o","n","e">>

\* variant: the image id is the third part alone
InfoOfPartsThirdOnly(bandit, parts) ==
    IF Len(parts) >= 3
    THEN [name |-> parts[1],
          age |-> IF parts[2] # <<>> /\ parts[2] # NoneText
                  THEN Some(parts[2]) ELSE None,
          image_id |-> Some(parts[3]),
          full_key |-> bandit]
    ELSE [name |-> parts[1],
          age |-> IF Len(parts) > 1 THEN Some(parts[2]) ELSE None,
          image_id |-> None,
          full_key |-> bandit]

\* one entry of bandit_info, from the parts of its key
InfoOfParts(bandit, parts) ==
    IF Len(parts) >= 3
    THEN [name |-> parts[1],
          age |-> IF parts[2] # <<>> /\ parts[2] # NoneText
                  THEN Some(parts[2]) ELSE None,
          image_id |-> Some(Join(SubSeq(parts, 3, Len(parts)), Underscore)),
          full_key |-> bandit]
    ELSE [name |-> parts[1],
          age |-> IF Len(parts) > 1 THEN Some(parts[2]) ELSE None,
          image_id |-> None,
          full_key |-> bandit]

\* one entry of bandit_info, parsed from a "name_age_imageid" key
ParseBandit(bandit) == InfoOfParts(bandit, SplitOn(bandit, "_"))

BanditInfo(detected) == [k \in 1..Len(detected) |-> ParseBandit(detected[k])]

\* name_match and age_match and image_match for one info and the pattern
InfoMatches(info, pattern, current_image_id) ==
    /\ \/ Lower(info.name) = Lower(pattern.name)
       \/ Contains(pattern.name, info.name)
       \/ Contains(info.name, pattern.name)
    /\ info.age = Some(pattern.age)
    /\ IF info.image_id # None /\ info.image_id[1] # <<>>
       THEN info.image_id = current_image_id
       ELSE TRUE

\* "pattern['line_index'] == i and pattern['image_id'] == current_image_id"
PatternIsFor(pattern, i, current_image_id) ==
    pattern.line_index = i /\ Some(pattern.image_id) = current_image_id

\* the first pattern of all_patterns whose image is line i with this id
PatternForImage(all_patterns, i, current_image_id) ==
    IF \E k \in 1..Len(all_patterns) :
           PatternIsFor(all_patterns[k], i, current_image_id)
    THEN Some(all_patterns[
             CHOOSE k \in 1..Len(all_patterns) :
                 /\ PatternIsFor(all_patterns[k], i, current_image_id)
                 /\ \A m \in 1..(k - 1) :
                       ~PatternIsFor(all_patterns[m], i, current_image_id)])
    ELSE None

\* the first info of bandit_info that matches the pattern of this image
DetectedFor(bandit_info, pattern_for_this_image, current_image_id) ==
    IF pattern_for_this_image = None THEN None
    ELSE IF \E k \in 1..Len(bandit_info) :
                InfoMatches(bandit_info[k], pattern_for_this_image[1],
                            current_image_id)
         THEN Some(bandit_info[
                  CHOOSE k \in 1..Len(bandit_info) :
                      /\ InfoMatches(bandit_info[k], pattern_for_this_image[1],
                                     current_image_id)
                      /\ \A m \in 1..(k - 1) :
                            ~InfoMatches(bandit_info[m],
                                         pattern_for_this_image[1],
                                         current_image_id)])
         ELSE None

DetectedForImage(all_patterns, bandit_info, i, current_image_id) ==
    DetectedFor(bandit_info,
                PatternForImage(all_patterns, i, current_image_id),
                current_image_id)

DetectedForLine(all_patterns, bandit_info, i, line_stripped) ==
    IF ~Contains(line_stripped, ImageLiteral) THEN None
    ELSE DetectedForImage(all_patterns, bandit_info, i,
                          ImageSearch(line_stripped))

\* the detected bandit that makes line i start a new section, or None
DetectedBanditAt(lines, all_patterns, bandit_info, i) ==
    DetectedForLine(all_patterns, bandit_info, i, Strip(lines[i + 1]))

\* '\n'.join of the lines a section holds; a section is the list of the
\* (0-based) indices of the lines appended to it
SectionText(lines, section) ==
    Join([k \in 1..Len(section) |-> lines[section[k] + 1]], Newline)

\* variant: the threshold test counts the lines of the section
HasContentLines(lines, section) ==
    section # <<>> /\ Len(section) > MinContent

\* variant: the threshold test is >= in place of >
HasContentAtLeast(lines, section) ==
    section # <<>> /\ Len(Strip(SectionText(lines, section))) >= MinContent

\* "current_section and len('\n'.join(current_section).strip()) > 100"
HasContent(lines, section) ==
    section # <<>> /\ Len(Strip(SectionText(lines, section))) > MinContent

\* variant: a record start appends to the accumulator in place of replacing it
RECURSIVE WalkFromNoReset(_, _, _, _, _, _, _)
WalkFromNoReset(lines, all_patterns, bandit_info, i, sections, current_section, closed) ==
    IF i >= Len(lines)
    THEN [sections |-> sections, current_section |-> current_section,
          closed |-> closed]
    ELSE IF DetectedBanditAt(lines, all_patterns, bandit_info, i) # None
         THEN WalkFromNoReset(lines, all_patterns, bandit_info, i + 1,
                       IF HasContent(lines, current_section)
                       THEN Append(sections, current_section) ELSE sections,
                       Append(current_section, i),
                       Append(closed, current_section))
         ELSE WalkFromNoReset(lines, all_patterns, bandit_info, i + 1,
                       sections, Append(current_section, i), closed)

\* variant: an image line that starts no record is left out of the accumulator
RECURSIVE WalkFromDropImage(_, _, _, _, _, _, _)
WalkFromDropImage(lines, all_patterns, bandit_info, i, sections, current_section, closed) ==
    IF i >= Len(lines)
    THEN [sections |-> sections, current_section |-> current_section,
          closed |-> closed]
    ELSE IF DetectedBanditAt(lines, all_patterns, bandit_info, i) # None
         THEN WalkFromDropImage(lines, all_patterns, bandit_info, i + 1,
                       IF HasContent(lines, current_section)
                       THEN Append(sections, current_section) ELSE sections,
                       <<i>>,
                       Append(closed, current_section))
         ELSE WalkFromDropImage(lines, all_patterns, bandit_info, i + 1,
                       sections,
                       IF Contains(Strip(lines[i + 1]), ImageLiteral)
                       THEN current_section ELSE Append(current_section, i),
                       closed)

\* the loop "for i, line in enumerate(lines)".  closed lists every
\* accumulator the loop replaced, kept or not, in the order it was replaced.
RECURSIVE WalkFrom(_, _, _, _, _, _, _)
WalkFrom(lines, all_patterns, bandit_info, i, sections, current_section, closed) ==
    IF i >= Len(lines)
    THEN [sections |-> sections, current_section |-> current_section,
          closed |-> closed]
    ELSE IF DetectedBanditAt(lines, all_patterns, bandit_info, i) # None
         THEN WalkFrom(lines, all_patterns, bandit_info, i + 1,
                       IF HasContent(lines, current_section)
                       THEN Append(sections, current_section) ELSE sections,
                       <<i>>,
                       Append(closed, current_section))
         ELSE WalkFrom(lines, all_patterns, bandit_info, i + 1,
                       sections, Append(current_section, i), closed)

\* "Add the last section"
LastFlush(lines, w) ==
    IF HasContent(lines, w.current_section)
    THEN Append(w.sections, w.current_section)
    ELSE w.sections

\* the line indices of lines[i:i + chunk_size]
Slice(lines, i, chunk_size) ==
    [k \in 1..((IF i + chunk_size < Len(lines) THEN i + chunk_size
                ELSE Len(lines)) - i) |-> i + k - 1]

\* "if len(chunk.strip()) > 100: sections.append(chunk)"
AddChunk(lines, sections, chunk) ==
    IF Len(Strip(SectionText(lines, chunk))) > MinContent
    THEN Append(sections, chunk) ELSE sections

\* "for i in range(0, len(lines), chunk_size)" of the fixed-chunk fallback
RECURSIVE FixedFrom(_, _, _, _)
FixedFrom(lines, chunk_size, i, sections) ==
    IF i >= Len(lines) THEN sections
    ELSE FixedFrom(lines, chunk_size, i + chunk_size,
                   AddChunk(lines, sections, Slice(lines, i, chunk_size)))

ChunkSize(lines) == Len(lines) \div FallbackParts

(***************************************************************************)
(* Inputs: the text is a run of at most MaxBlocks blocks of lines followed *)
(* by 0 or PadLines empty lines                                            *)
(***************************************************************************)
MaxBlocks == 2
PadLines == 20
\* empty lines in front of the age line of the last block of the pool: the
\* line before the block is the farthest line the backward scan reaches
GapLines == 8

ImageA == ImageLiteral \o <<" ","a","_","1","]">>
ImageB == ImageLiteral \o <<" ","b","]">>
BrokenImage == ImageLiteral \o <<" ","c">>
Maria == <<"M","a","r","i","a">>
Mar == <<" ","M","a","r"," ">>
Age30 == AgeLiteral \o <<" ","3","0">>
Age7 == <<"(">> \o AgeLiteral \o <<"7",")">>
Prose == <<"s","e","e"," ">> \o AgeLiteral \o <<" ","x">>
Blank == <<>>
Filler == [k \in 1..MinContent |-> "x"]

BlockPool ==
    { <<ImageA, Maria, Age30, Filler>>,
      <<ImageB, Maria, Age30>>,
      <<ImageA>>,
      <<Mar>>,
      <<Age7>>,
      <<Filler>>,
      <<Prose, BrokenImage>>,
      <<Blank>>,
      [k \in 1..GapLines |-> Blank] \o <<Age7>>,
      <<ImageB, Maria, Age30, Mar, Age7, ImageA, Age30, Filler>> }

RECURSIVE Concat(_)
Concat(blocks) ==
    IF blocks = <<>> THEN <<>> ELSE Head(blocks) \o Concat(Tail(blocks))

InputTexts ==
    { Concat(blocks) \o [k \in 1..pad |-> Blank] :
        blocks \in UNION {[1..n -> BlockPool] : n \in 1..MaxBlocks},
        pad \in {0, PadLines} }

Key(name, age, image_id) == BanditKey([name |-> name, age |-> age, image_id |-> image_id])

\* detected lists a caller other than the pipeline may pass
DirectLists ==
    { <<>>,
      << Maria \o Underscore \o <<"3","0">> >>,
      << Key(<<"M","a","r">>, <<"3","0">>, <<"a","_","1">>),
         Key(Maria, <<"3","0">>, <<"b">>) >>,
      << Key(<<"M","a","r">>, <<"7">>, <<"b">>) >> }

\* the largest start_index of a call of the matcher with no maximum
MaxStart == 6

\* start_index and max_bandits a direct call of the matcher may pass
StartChoices == {0, 1}
MaxChoices == {Some(0), Some(1), Some(2)}

(***************************************************************************)
(* The state machine                                                       *)
(***************************************************************************)
VARIABLES
    lines,             \* text.split('\n') of the input text
    pc,                \* where the run is
    patterns,          \* extract_text_with_placeholders: the matcher's result
    found_bandits,     \* extract_text_with_placeholders: the keys kept
    detected_bandits,  \* split_text_by_bandits: its argument
    all_patterns,      \* split_text_by_bandits: the matcher's result
    sections,          \* split_text_by_bandits: sections
    closed,            \* every accumulator closed, in order (history)
    result,            \* the list split_text_by_bandits returned
    path,              \* which return statement returned it
    raised,            \* the exception that left split_text_by_bandits
    start_index,       \* find_bandit_patterns_in_lines called alone: its arguments
    max_bandits,
    found_patterns,    \* and the list it returned
    run,               \* 1 in the first_call call of split_text_by_bandits, 2 in a repeat
    first_call              \* what the first_call call left, kept while it is repeated

\* insert_to_supabase.py
VARIABLES
    data,              \* load_json_file(INPUT_FILE)
    tables,            \* the remote tables bandit, event and bandit_event
    bandit_ids,        \* main: what insert_bandits returned
    event_ids,         \* main: what insert_events returned
    bandit_id_mapping, \* main: original bandit id -> new UUID
    event_id_mapping,  \* main: original event id -> new UUID
    inserted_ids,      \* the list the running insert_* function is building
    next_uuid,         \* the UUIDs generate_uuid() has handed out so far
    record_index,      \* the record the running insert_* loop is at, from 1
    step               \* where main is

\* docx_to_database.py: process_with_ai after split_text_by_bandits returned
VARIABLES
    text_chunks,       \* the chunks, by number
    ai_max_bandits,    \* the argument max_bandits
    chunk_index,       \* i of "for i, chunk in enumerate(text_chunks, 1)"
    all_bandits,
    all_events,
    all_bandit_events,
    responses,         \* what the AI service answered, chunk by chunk (history)
    structured_data,   \* what process_with_ai returned
    ai_pc              \* where process_with_ai is

\* docx_to_database.py: geocode_address
VARIABLES
    GOOGLE_MAPS_API_KEY, \* whether the key is set in the environment
    cache,             \* the dictionary the calls share
    queries,           \* the requests sent to the two services (history)
    geocode_calls      \* the calls made and what each returned (history)

\* docx_to_database.py: process_document and the remote store
VARIABLES
    DRY_RUN,           \* the pipeline settings
    EMPTY_BUCKET_BEFORE_UPLOAD,
    supabase,          \* whether the client was created
    bucket,            \* the files of the remote bucket
    database,          \* the rows of the remote tables
    remote_writes,     \* the write requests sent to the remote store (history)
    image_data,        \* extraction_result["image_data"]: the placeholder ids
    existing_files,    \* upload_images_to_supabase: existing_files
    image_index,       \* the image its loop is at, from 1
    image_urls,        \* the ids that got a public URL
    final_data,        \* the rows process_with_ai and the later steps produced
    doc_pc             \* where process_document is

segmenter_vars == <<lines, pc, patterns, found_bandits, detected_bandits,
                    all_patterns, sections, closed, result, path, raised,
                    start_index, max_bandits, found_patterns, run, first_call>>

insert_vars == <<data, tables, bandit_ids, event_ids, bandit_id_mapping,
                 event_id_mapping, inserted_ids, next_uuid, record_index,
                 step>>

ai_vars == <<text_chunks, ai_max_bandits, chunk_index, all_bandits, all_events,
             all_bandit_events, responses, structured_data, ai_pc>>

geo_vars == <<GOOGLE_MAPS_API_KEY, cache, queries, geocode_calls>>

doc_vars == <<DRY_RUN, EMPTY_BUCKET_BEFORE_UPLOAD, supabase, bucket, database,
              remote_writes, image_data, existing_files, image_index, image_urls,
              final_data, doc_pc>>

\* the variables of the components other than the segmenter
beyond == <<insert_vars, ai_vars, geo_vars, doc_vars>>

vars == <<segmenter_vars, beyond>>

\* the variables no step of the pipeline or of split_text_by_bandits touches
others == <<start_index, max_bandits, found_patterns, run, first_call, beyond>>

\* the segmenter before any text is loaded
SegmenterIdle ==
    /\ lines = <<>>
    /\ pc = "idle"
    /\ patterns = <<>>
    /\ found_bandits = <<>>
    /\ detected_bandits = <<>>
    /\ all_patterns = <<>>
    /\ sections = <<>>
    /\ closed = <<>>
    /\ result = <<>>
    /\ path = "none"
    /\ raised = "none"
    /\ start_index = 0
    /\ max_bandits = None
    /\ found_patterns = <<>>
    /\ run = 1
    /\ first_call = <<>>

\* insert_to_supabase.py not started
InsertIdle ==
    /\ data = [bandit |-> <<>>, events |-> <<>>, bandit_events |-> <<>>]
    /\ tables = [bandit |-> <<>>, event |-> <<>>, bandit_event |-> <<>>]
    /\ bandit_ids = <<>>
    /\ event_ids = <<>>
    /\ bandit_id_mapping = <<>>
    /\ event_id_mapping = <<>>
    /\ inserted_ids = <<>>
    /\ next_uuid = 0
    /\ record_index = 1
    /\ step = "idle"

\* process_document not called
DocIdle ==
    /\ DRY_RUN = TRUE
    /\ EMPTY_BUCKET_BEFORE_UPLOAD = FALSE
    /\ supabase = FALSE
    /\ bucket = {}
    /\ database = <<>>
    /\ remote_writes = <<>>
    /\ image_data = <<>>
    /\ existing_files = {}
    /\ image_index = 1
    /\ image_urls = {}
    /\ final_data = <<>>
    /\ doc_pc = "idle"

\* geocode_address not called
GeoIdle ==
    /\ GOOGLE_MAPS_API_KEY = FALSE
    /\ cache = <<>>
    /\ queries = <<>>
    /\ geocode_calls = <<>>

\* process_with_ai not called
AiIdle ==
    /\ text_chunks = <<>>
    /\ ai_max_bandits = 0
    /\ chunk_index = 1
    /\ all_bandits = <<>>
    /\ all_events = <<>>
    /\ all_bandit_events = <<>>
    /\ responses = <<>>
    /\ structured_data = <<>>
    /\ ai_pc = "idle"

Init ==
    /\ lines \in InputTexts
    /\ pc = "start"
    /\ patterns = <<>>
    /\ found_bandits = <<>>
    /\ detected_bandits = <<>>
    /\ all_patterns = <<>>
    /\ sections = <<>>
    /\ closed = <<>>
    /\ result = <<>>
    /\ path = "none"
    /\ raised = "none"
    /\ start_index = 0
    /\ max_bandits = None
    /\ found_patterns = <<>>
    /\ run = 1
    /\ first_call = <<>>
    /\ InsertIdle
    /\ AiIdle
    /\ GeoIdle
    /\ DocIdle

\* extract_text_with_placeholders, from the split of readable_text on
ExtractText ==
    /\ pc = "start"
    /\ patterns' = find_bandit_patterns_in_lines(lines, 0, Some(MAX_BANDITS))
    /\ found_bandits' = DedupFrom(patterns', 1, <<>>)
    /\ pc' = "extracted"
    /\ UNCHANGED <<lines, detected_bandits, all_patterns, sections, closed,
                   result, path, raised,
                   others>>

\* process_document -> process_with_ai -> split_text_by_bandits(text, detected_bandits)
ProcessWithAI ==
    /\ pc = "extracted"
    /\ detected_bandits' = found_bandits
    /\ pc' = "split"
    /\ UNCHANGED <<lines, patterns, found_bandits, all_patterns, sections,
                   closed, result, path, raised,
                   others>>

\* split_text_by_bandits called with a detected list of the caller's own
CallSplit ==
    /\ pc = "start"
    /\ \E d \in DirectLists : detected_bandits' = d
    /\ pc' = "split"
    /\ UNCHANGED <<lines, patterns, found_bandits, all_patterns, sections,
                   closed, result, path, raised,
                   others>>

\* variant: sections is not emptied when the function is entered
WalkDoneKeepsSections(w) ==
    /\ sections' = sections \o LastFlush(lines, w)
    /\ closed' = Append(w.closed, w.current_section)

\* the state the walk leaves: the sections after "Add the last section"
WalkDone(w) ==
    /\ sections' = LastFlush(lines, w)
    /\ closed' = Append(w.closed, w.current_section)

\* split_text_by_bandits up to and with "Add the last section"
SplitWalk ==
    /\ pc = "split"
    /\ all_patterns' = find_bandit_patterns_in_lines(lines, 0, None)
    /\ WalkDone(WalkFrom(lines, all_patterns', BanditInfo(detected_bandits),
                         0, <<>>, <<>>, <<>>))
    /\ pc' = "walked"
    /\ UNCHANGED <<lines, patterns, found_bandits, detected_bandits, result,
                   path, raised,
                   others>>

\* "if len(sections) >= 1: return sections"
ReturnSections ==
    /\ pc = "walked"
    /\ Len(sections) >= 1
    /\ result' = sections
    /\ path' = "sections"
    /\ pc' = "done"
    /\ UNCHANGED <<lines, patterns, found_bandits, detected_bandits,
                   all_patterns, sections, closed, raised,
                   others>>

\* the else branch, when range(0, len(lines), chunk_size) is a valid range
FixedChunks ==
    /\ pc = "walked"
    /\ Len(sections) < 1
    /\ ChunkSize(lines) # 0
    /\ result' = FixedFrom(lines, ChunkSize(lines), 0, <<>>)
    /\ path' = "fixed"
    /\ pc' = "done"
    /\ UNCHANGED <<lines, patterns, found_bandits, detected_bandits,
                   all_patterns, sections, closed, raised,
                   others>>

\* the else branch, when chunk_size is 0: range() raises ValueError
FixedChunksRaise ==
    /\ pc = "walked"
    /\ Len(sections) < 1
    /\ ChunkSize(lines) = 0
    /\ raised' = "ValueError"
    /\ pc' = "done"
    /\ UNCHANGED <<lines, patterns, found_bandits, detected_bandits,
                   all_patterns, sections, closed, result, path,
                   others>>

\* find_bandit_patterns_in_lines(lines, start_index, max_bandits) called alone
CallFind ==
    /\ pc = "start"
    /\ \E st \in StartChoices, mx \in MaxChoices :
          /\ st <= Len(lines)
          /\ start_index' = st
          /\ max_bandits' = mx
          /\ found_patterns' = find_bandit_patterns_in_lines(lines, st, mx)
    /\ pc' = "found"
    /\ UNCHANGED <<lines, patterns, found_bandits, detected_bandits,
                   all_patterns, sections, closed, result, path, raised,
                   run, first_call, beyond>>

\* find_bandit_patterns_in_lines(lines, start_index) called alone, with no
\* maximum, from any of the first offsets
CallFindFrom ==
    /\ pc = "start"
    /\ \E st \in 0..MaxStart :
          /\ st <= Len(lines)
          /\ start_index' = st
          /\ found_patterns' = find_bandit_patterns_in_lines(lines, st, None)
    /\ max_bandits' = None
    /\ pc' = "found"
    /\ UNCHANGED <<lines, patterns, found_bandits, detected_bandits,
                   all_patterns, sections, closed, result, path, raised,
                   run, first_call, beyond>>

\* split_text_by_bandits called a second time with the same text and list
CallAgain ==
    /\ pc = "done"
    /\ run = 1
    /\ first_call' = [all_patterns |-> all_patterns, sections |-> sections,
                 result |-> result, path |-> path, raised |-> raised]
    /\ run' = 2
    /\ result' = <<>>
    /\ path' = "none"
    /\ raised' = "none"
    /\ pc' = "split"
    /\ UNCHANGED <<lines, patterns, found_bandits, detected_bandits,
                   all_patterns, sections, closed,
                   start_index, max_bandits, found_patterns, beyond>>

Next ==
    \/ ExtractText
    \/ ProcessWithAI
    \/ CallSplit
    \/ SplitWalk
    \/ ReturnSections
    \/ FixedChunks
    \/ FixedChunksRaise
    \/ CallFind

Spec == Init /\ [][Next]_vars

NextAgain ==
    \/ CallSplit
    \/ SplitWalk
    \/ ReturnSections
    \/ FixedChunks
    \/ FixedChunksRaise
    \/ CallAgain

SpecAgain == Init /\ [][NextAgain]_vars

NextRestart == CallFindFrom

SpecRestart == Init /\ [][NextRestart]_vars

(***************************************************************************)
(* insert_to_supabase.py: main, insert_bandits, insert_events,             *)
(* insert_bandit_events                                                    *)
(*                                                                         *)
(* A UUID is the number of the generate_uuid() call that made it.  A row   *)
(* of a table carries, next to its columns, the position "of" of the input *)
(* record it was built from (0 for a row that was there before the run).   *)
(***************************************************************************)
\* the most records of one kind in the input file
MaxRecords == 2

\* the original ids the records of the input file carry
BanditIds == {"b1", "b2"}
EventIds == {"e1", "e2"}

\* the lists of at most MaxRecords records with different ids
RecordLists(ids) ==
    { s \in UNION { [1..n -> [id : ids]] : n \in 0..MaxRecords } :
        \A i, j \in 1..Len(s) : s[i].id = s[j].id => i = j }

\* the lists of at most MaxRecords relationships between any two ids
RelationshipLists ==
    UNION { [1..n -> [bandit_id : BanditIds, event_id : EventIds]] :
            n \in 0..MaxRecords }

InputData ==
    [bandit : RecordLists(BanditIds), events : RecordLists(EventIds),
     bandit_events : RelationshipLists]

\* the rows the tables hold before the run
OldTables ==
    [bandit |-> << [id |-> 0, of |-> 0] >>,
     event |-> << [id |-> 0, of |-> 0] >>,
     bandit_event |-> << [id |-> 0, bandit_id |-> 0, event_id |-> 0, of |-> 0] >>]

TableNames == {"bandit_event", "event", "bandit"}

\* execute() of an insert: result.data is set, result.data is empty, or it raises
InsertOutcomes == {"data", "empty", "error"}

\* supabase.table(table).insert(row).execute()
InsertRow(all_tables, table, row, outcome) ==
    IF outcome = "data" THEN [all_tables EXCEPT ![table] = Append(@, row)]
    ELSE all_tables

\* "if result.data: inserted_ids.append(...)"
Inserted(ids, new_id, outcome) ==
    IF outcome = "data" THEN Append(ids, new_id) ELSE ids

\* mapping[key] = value
Put(mapping, key, value) ==
    [k \in DOMAIN mapping \cup {key} |-> IF k = key THEN value ELSE mapping[k]]

\* main: "for i, bandit in enumerate(...): if i < len(bandit_ids):
\*           bandit_id_mapping[bandit.get('id')] = bandit_ids[i]"
RECURSIVE MapIds(_, _, _, _)
MapIds(records, ids, i, mapping) ==
    IF i > Len(records) THEN mapping
    ELSE MapIds(records, ids, i + 1,
                IF i <= Len(ids) THEN Put(mapping, records[i].id, ids[i])
                ELSE mapping)

NoMapping == [k \in {} |-> 0]

InitInsert ==
    /\ SegmenterIdle
    /\ AiIdle
    /\ GeoIdle
    /\ DocIdle
    /\ data \in InputData
    /\ tables = OldTables
    /\ bandit_ids = <<>>
    /\ event_ids = <<>>
    /\ bandit_id_mapping = NoMapping
    /\ event_id_mapping = NoMapping
    /\ inserted_ids = <<>>
    /\ next_uuid = 0
    /\ record_index = 1
    /\ step = "truncate"

\* truncate_tables: each delete empties its table or raises and is passed over
TruncateTables ==
    /\ step = "truncate"
    /\ \E ok \in SUBSET TableNames :
          tables' = [t \in DOMAIN tables |-> IF t \in ok THEN <<>> ELSE tables[t]]
    /\ step' = "insert_bandits"
    /\ UNCHANGED <<data, bandit_ids, event_ids, bandit_id_mapping,
                   event_id_mapping, inserted_ids, next_uuid, record_index,
                   segmenter_vars, ai_vars, geo_vars, doc_vars>>

\* insert_bandits: one turn of its loop
InsertBandit ==
    /\ step = "insert_bandits"
    /\ record_index <= Len(data.bandit)
    /\ \E outcome \in InsertOutcomes :
          /\ tables' = InsertRow(tables, "bandit",
                                 [id |-> next_uuid + 1, of |-> record_index],
                                 outcome)
          /\ inserted_ids' = Inserted(inserted_ids, next_uuid + 1, outcome)
    /\ next_uuid' = next_uuid + 1
    /\ record_index' = record_index + 1
    /\ UNCHANGED <<data, bandit_ids, event_ids, bandit_id_mapping,
                   event_id_mapping, step, segmenter_vars, ai_vars, geo_vars, doc_vars>>

\* main: insert_bandits returns, and the loop that fills bandit_id_mapping
MapBandits ==
    /\ step = "insert_bandits"
    /\ record_index > Len(data.bandit)
    /\ bandit_ids' = inserted_ids
    /\ bandit_id_mapping' = MapIds(data.bandit, inserted_ids, 1, NoMapping)
    /\ inserted_ids' = <<>>
    /\ record_index' = 1
    /\ step' = "insert_events"
    /\ UNCHANGED <<data, tables, event_ids, event_id_mapping, next_uuid,
                   segmenter_vars, ai_vars, geo_vars, doc_vars>>

\* insert_events: one turn of its loop
InsertEvent ==
    /\ step = "insert_events"
    /\ record_index <= Len(data.events)
    /\ \E outcome \in InsertOutcomes :
          /\ tables' = InsertRow(tables, "event",
                                 [id |-> next_uuid + 1, of |-> record_index],
                                 outcome)
          /\ inserted_ids' = Inserted(inserted_ids, next_uuid + 1, outcome)
    /\ next_uuid' = next_uuid + 1
    /\ record_index' = record_index + 1
    /\ UNCHANGED <<data, bandit_ids, event_ids, bandit_id_mapping,
                   event_id_mapping, step, segmenter_vars, ai_vars, geo_vars, doc_vars>>

\* main: insert_events returns, and the loop that fills event_id_mapping
MapEvents ==
    /\ step = "insert_events"
    /\ record_index > Len(data.events)
    /\ event_ids' = inserted_ids
    /\ event_id_mapping' = MapIds(data.events, inserted_ids, 1, NoMapping)
    /\ inserted_ids' = <<>>
    /\ record_index' = 1
    /\ step' = "insert_bandit_events"
    /\ UNCHANGED <<data, tables, bandit_ids, bandit_id_mapping, next_uuid,
                   segmenter_vars, ai_vars, geo_vars, doc_vars>>

\* insert_bandit_events: a turn of its loop that ends in "continue"
SkipBanditEvent ==
    /\ step = "insert_bandit_events"
    /\ record_index <= Len(data.bandit_events)
    /\ \/ data.bandit_events[record_index].bandit_id \notin DOMAIN bandit_id_mapping
       \/ data.bandit_events[record_index].event_id \notin DOMAIN event_id_mapping
    /\ record_index' = record_index + 1
    /\ UNCHANGED <<data, tables, bandit_ids, event_ids, bandit_id_mapping,
                   event_id_mapping, inserted_ids, next_uuid, step,
                   segmenter_vars, ai_vars, geo_vars, doc_vars>>

\* insert_bandit_events: a turn of its loop that reaches the insert
InsertBanditEvent ==
    /\ step = "insert_bandit_events"
    /\ record_index <= Len(data.bandit_events)
    /\ data.bandit_events[record_index].bandit_id \in DOMAIN bandit_id_mapping
    /\ data.bandit_events[record_index].event_id \in DOMAIN event_id_mapping
    /\ \E outcome \in InsertOutcomes :
          /\ tables' = InsertRow(tables, "bandit_event",
                [id |-> next_uuid + 1,
                 bandit_id |-> bandit_id_mapping[data.bandit_events[record_index].bandit_id],
                 event_id |-> event_id_mapping[data.bandit_events[record_index].event_id],
                 of |-> record_index],
                outcome)
          /\ inserted_ids' = Inserted(inserted_ids, next_uuid + 1, outcome)
    /\ next_uuid' = next_uuid + 1
    /\ record_index' = record_index + 1
    /\ UNCHANGED <<data, bandit_ids, event_ids, bandit_id_mapping,
                   event_id_mapping, step, segmenter_vars, ai_vars, geo_vars, doc_vars>>

\* main: insert_bandit_events returns and the summary is printed
FinishInsert ==
    /\ step = "insert_bandit_events"
    /\ record_index > Len(data.bandit_events)
    /\ step' = "finished"
    /\ UNCHANGED <<data, tables, bandit_ids, event_ids, bandit_id_mapping,
                   event_id_mapping, inserted_ids, next_uuid, record_index,
                   segmenter_vars, ai_vars, geo_vars, doc_vars>>

NextInsert ==
    \/ TruncateTables
    \/ InsertBandit
    \/ MapBandits
    \/ InsertEvent
    \/ MapEvents
    \/ SkipBanditEvent
    \/ InsertBanditEvent
    \/ FinishInsert

SpecInsert == InitInsert /\ [][NextInsert]_vars

(***************************************************************************)
(* docx_to_database.py: process_with_ai, the loop over the chunks and the  *)
(* limiting of the result                                                  *)
(*                                                                         *)
(* A response text is a sequence of tokens: a piece of plain text, or one  *)
(* whole JSON document with its value.  A JSON value is a list, a dict or  *)
(* null; a dict is a record and d.get(key) is Get(d, key).                 *)
(***************************************************************************)
\* the most chunks split_text_by_bandits hands over
MaxChunks == 3

\* the values of max_bandits
AiMaxChoices == {0, 1, 2}

Text(s) == [kind |-> "text", text |-> s]
Doc(v) == [kind |-> "doc", value |-> v]
List(items) == [type |-> "list", items |-> items]
Dict(fields) == [type |-> "dict", fields |-> fields]
Null == [type |-> "null"]

\* the three backquotes that open and close a fenced block
Fence == Text("fence")

IsText(token, s) == token.kind = "text" /\ token.text = s
IsBlank(token) == token.kind = "text" /\ token.text = "\n"

\* d.get(key)
Get(d, key) == IF key \in DOMAIN d THEN <<d[key]>> ELSE <<>>

\* d.get(key, [])
GetOrEmpty(d, key) == IF key \in DOMAIN d THEN d[key] ELSE List(<<>>)

\* the documents the service may answer with
Ann == [id |-> "b1", name |-> "Ann"]
Bob == [id |-> "b2", name |-> "Bob"]
Cleo == [id |-> "b3", name |-> "Cleo"]
Nameless == [name |-> "Dora"]
Cafe == [id |-> "e1", name |-> "Cafe"]
Bar == [id |-> "e2", name |-> "Bar"]
Shop == [id |-> "e3", name |-> "Shop"]

OneBandit ==
    Dict([bandits |-> List(<<Ann>>), events |-> List(<<Cafe>>),
          bandit_events |-> List(<< [bandit_id |-> "b1", event_id |-> "e1"] >>)])
TwoBandits ==
    Dict([bandit |-> List(<<Bob, Cleo>>), events |-> List(<<Bar, Shop>>),
          bandit_events |-> List(<< [bandit_id |-> "b2", event_id |-> "e2"],
                                    [bandit_id |-> "b3", event_id |-> "e9"],
                                    [bandit_id |-> "b9", event_id |-> "e3"] >>)])
NoIds ==
    Dict([bandits |-> Null, bandit |-> List(<<Nameless>>),
          events |-> List(<<Cafe>>),
          bandit_events |-> List(<< [event_id |-> "e1"] >>)])
NullEvents ==
    Dict([bandits |-> List(<<Cleo>>), events |-> Null,
          bandit_events |-> List(<< [bandit_id |-> "b3", event_id |-> "e3"] >>)])

\* the response texts
Plain == << Doc(OneBandit) >>
Fenced == << Fence, Text("json"), Text("\n"), Doc(TwoBandits), Text("\n"),
             Fence >>
FencedThenNewline == << Fence, Text("json"), Text("\n"), Doc(OneBandit),
                        Text("\n"), Fence, Text("\n") >>
Sorry == << Text("Sorry, I cannot") >>
Truncated == << Doc(OneBandit), Text("{") >>
JsonList == << Doc(List(<<Ann>>)) >>
PlainNoIds == << Doc(NoIds) >>
PlainNullEvents == << Doc(NullEvents) >>

\* what a call of the AI service ends in: it raises, or it returns a text
ApiError == [kind |-> "api_error"]
Response(text) == [kind |-> "response", text |-> text]
AiOutcomes ==
    {ApiError} \cup { Response(t) : t \in {Plain, Fenced, FencedThenNewline, Sorry,
                                           Truncated, JsonList, PlainNoIds,
                                           PlainNullEvents} }

\* "if response_text.startswith(<fence>json): response_text = response_text[7:]"
DropOpeningFence(text) ==
    IF Len(text) >= 2 /\ text[1] = Fence /\ IsText(text[2], "json")
    THEN SubSeq(text, 3, Len(text)) ELSE text

\* "if response_text.endswith(<fence>): response_text = response_text[:-3]"
DropClosingFence(text) ==
    IF Len(text) >= 1 /\ text[Len(text)] = Fence
    THEN SubSeq(text, 1, Len(text) - 1) ELSE text

\* str.strip() of a response text
RECURSIVE StripLeft(_)
StripLeft(text) ==
    IF Len(text) >= 1 /\ IsBlank(text[1]) THEN StripLeft(Tail(text)) ELSE text

RECURSIVE StripRight(_)
StripRight(text) ==
    IF Len(text) >= 1 /\ IsBlank(text[Len(text)])
    THEN StripRight(SubSeq(text, 1, Len(text) - 1)) ELSE text

CleanResponse(text) == StripRight(StripLeft(DropClosingFence(DropOpeningFence(text))))

\* json.loads(text) returns, and does not raise JSONDecodeError
IsJson(text) == Len(StripRight(StripLeft(text))) = 1 /\ StripRight(StripLeft(text))[1].kind = "doc"

\* "chunk_data.get('bandits', []) or chunk_data.get('bandit', [])": null and
\* the empty list are false
ChunkBandits(fields) ==
    IF /\ GetOrEmpty(fields, "bandits").type = "list"
       /\ Len(GetOrEmpty(fields, "bandits").items) > 0
    THEN GetOrEmpty(fields, "bandits")
    ELSE GetOrEmpty(fields, "bandit")

\* variant: an exception in a chunk leaves the function
SkipChunkRaises(acc) == [acc EXCEPT !.go = "raise"]

\* the two except clauses: "continue"
SkipChunk(acc) == [acc EXCEPT !.go = "continue"]

\* "if len(all_bandits) >= max_bandits: break"
StopAtMaximum(acc, max) ==
    [acc EXCEPT !.go = IF Len(acc.all_bandits) >= max THEN "break" ELSE "continue"]

\* the three extend() calls, each raising TypeError on a value that is no list
Accumulate(acc, chunk_bandits, chunk_events, chunk_relationships, max) ==
    IF chunk_bandits.type # "list" THEN SkipChunk(acc)
    ELSE IF chunk_events.type # "list"
    THEN SkipChunk([acc EXCEPT !.all_bandits = @ \o chunk_bandits.items])
    ELSE IF chunk_relationships.type # "list"
    THEN SkipChunk([acc EXCEPT !.all_bandits = @ \o chunk_bandits.items,
                               !.all_events = @ \o chunk_events.items])
    ELSE StopAtMaximum([acc EXCEPT !.all_bandits = @ \o chunk_bandits.items,
                                   !.all_events = @ \o chunk_events.items,
                                   !.all_bandit_events = @ \o chunk_relationships.items],
                       max)

\* chunk_data.get(...) raises AttributeError when chunk_data is no dict
WithChunkData(acc, chunk_data, max) ==
    IF chunk_data.type # "dict" THEN SkipChunk(acc)
    ELSE Accumulate(acc, ChunkBandits(chunk_data.fields),
                    GetOrEmpty(chunk_data.fields, "events"),
                    GetOrEmpty(chunk_data.fields, "bandit_events"), max)

\* "chunk_data = json.loads(response_text)" and its JSONDecodeError
WithResponseText(acc, response_text, max) ==
    IF ~IsJson(response_text) THEN SkipChunk(acc)
    ELSE WithChunkData(acc, StripRight(StripLeft(response_text))[1].value, max)

\* the body of the try statement for one chunk
WithOutcome(acc, outcome, max) ==
    IF outcome.kind = "api_error" THEN SkipChunk(acc)
    ELSE WithResponseText(acc, CleanResponse(outcome.text), max)

\* list[:n] for n >= 0
Take(list, n) == SubSeq(list, 1, IF n < Len(list) THEN n ELSE Len(list))

\* "bandit_ids = [bandit.get('id') for bandit in all_bandits]"
IdsOf(bandit_list) == [n \in 1..Len(bandit_list) |-> Get(bandit_list[n], "id")]

\* "for event in all_events: if event.get('id') == event_id: ... break"
RECURSIVE FirstEvent(_, _, _)
FirstEvent(events, event_id, k) ==
    IF k > Len(events) THEN <<>>
    ELSE IF Get(events[k], "id") = event_id THEN << events[k] >>
    ELSE FirstEvent(events, event_id, k + 1)

\* variant: every relationship is kept
KeepsRelationshipAlways(relationship, ids) == TRUE

\* "if relationship.get('bandit_id') in bandit_ids"
KeepsRelationship(relationship, ids) ==
    \E n \in 1..Len(ids) : ids[n] = Get(relationship, "bandit_id")

\* the loop that fills filtered_relationships and filtered_events, and
\* structured_data at its end
RECURSIVE FilterFrom(_, _, _, _, _, _)
FilterFrom(limited, relationships, events, n, filtered_relationships, filtered_events) ==
    IF n > Len(relationships)
    THEN [bandit |-> limited, events |-> filtered_events,
          bandit_events |-> filtered_relationships]
    ELSE IF KeepsRelationship(relationships[n], IdsOf(limited))
    THEN FilterFrom(limited, relationships, events, n + 1,
                    Append(filtered_relationships, relationships[n]),
                    filtered_events
                      \o FirstEvent(events, Get(relationships[n], "event_id"), 1))
    ELSE FilterFrom(limited, relationships, events, n + 1, filtered_relationships,
                    filtered_events)

\* "all_bandits = all_bandits[:max_bandits]" and the filter after it
LimitedResult(bandit_list, events, relationships, max) ==
    FilterFrom(Take(bandit_list, max), relationships, events, 1, <<>>, <<>>)

InitAi ==
    /\ SegmenterIdle
    /\ InsertIdle
    /\ GeoIdle
    /\ DocIdle
    /\ text_chunks \in { [n \in 1..k |-> n] : k \in 0..MaxChunks }
    /\ ai_max_bandits \in AiMaxChoices
    /\ chunk_index = 1
    /\ all_bandits = <<>>
    /\ all_events = <<>>
    /\ all_bandit_events = <<>>
    /\ responses = <<>>
    /\ structured_data = <<>>
    /\ ai_pc = "start"

\* "if USE_DEEPSEEK and not DEEPSEEK_API_KEY: raise Exception(...)"
AiNotConfigured ==
    /\ ai_pc = "start"
    /\ ai_pc' = "raised"
    /\ UNCHANGED <<text_chunks, ai_max_bandits, chunk_index, all_bandits,
                   all_events, all_bandit_events, responses, structured_data,
                   segmenter_vars, insert_vars, geo_vars, doc_vars>>

\* the configured case: the prompt list is built and the loop is entered
AiConfigured ==
    /\ ai_pc = "start"
    /\ ai_pc' = "chunks"
    /\ UNCHANGED <<text_chunks, ai_max_bandits, chunk_index, all_bandits,
                   all_events, all_bandit_events, responses, structured_data,
                   segmenter_vars, insert_vars, geo_vars, doc_vars>>

\* what one turn of the loop leaves
ChunkDone(acc) ==
    /\ all_bandits' = acc.all_bandits
    /\ all_events' = acc.all_events
    /\ all_bandit_events' = acc.all_bandit_events
    /\ chunk_index' = chunk_index + 1
    /\ ai_pc' = IF acc.go = "continue" THEN "chunks"
                ELSE IF acc.go = "break" THEN "limit" ELSE "raised"

\* one turn of "for i, chunk in enumerate(text_chunks, 1)"
ProcessChunk ==
    /\ ai_pc = "chunks"
    /\ chunk_index <= Len(text_chunks)
    /\ \E outcome \in AiOutcomes :
          /\ responses' = Append(responses, outcome)
          /\ ChunkDone(WithOutcome([all_bandits |-> all_bandits,
                                    all_events |-> all_events,
                                    all_bandit_events |-> all_bandit_events,
                                    go |-> "continue"],
                                   outcome, ai_max_bandits))
    /\ UNCHANGED <<text_chunks, ai_max_bandits, structured_data,
                   segmenter_vars, insert_vars, geo_vars, doc_vars>>

\* the loop ends with no chunk left
ChunksDone ==
    /\ ai_pc = "chunks"
    /\ chunk_index > Len(text_chunks)
    /\ ai_pc' = "limit"
    /\ UNCHANGED <<text_chunks, ai_max_bandits, chunk_index, all_bandits,
                   all_events, all_bandit_events, responses, structured_data,
                   segmenter_vars, insert_vars, geo_vars, doc_vars>>

\* "Limit results to max_bandits" up to the return
LimitResults ==
    /\ ai_pc = "limit"
    /\ structured_data' = LimitedResult(all_bandits, all_events, all_bandit_events,
                                        ai_max_bandits)
    /\ ai_pc' = "returned"
    /\ UNCHANGED <<text_chunks, ai_max_bandits, chunk_index, all_bandits,
                   all_events, all_bandit_events, responses,
                   segmenter_vars, insert_vars, geo_vars, doc_vars>>

NextAi ==
    \/ AiNotConfigured
    \/ AiConfigured
    \/ ProcessChunk
    \/ ChunksDone
    \/ LimitResults

SpecAi == InitAi /\ [][NextAi]_vars

(***************************************************************************)
(* docx_to_database.py: geocode_address, called again and again with one   *)
(* cache dictionary as geocode_events_batch does                           *)
(*                                                                         *)
(* Coordinates are an option: None, or Some of a latitude and a longitude. *)
(***************************************************************************)
\* the most calls of geocode_address in one sequence
MaxCalls == 3

USE_FREE_GEOCODING == TRUE

\* the addresses and cities the calls pass
Addresses ==
    { <<>>, <<" ">>, <<"A"," ","S","t">>, <<" ","a"," ","s","t"," ">>, <<"B">> }
DefaultCity == <<"A","t","h","e","n","s",","," ","G","r","e","e","c","e">>
Cities == { DefaultCity, <<"A","T","H","E","N","S",","," ","G","R","E","E","C","E">> }

\* what a geocoding service answers: nothing, or coordinates
NominatimAnswers == { None, Some([lat |-> 1, lng |-> 2]) }
GoogleAnswers == { None, Some([lat |-> 3, lng |-> 4]) }

\* what load_geocoding_cache() may bring from the cache file
LoadedCaches ==
    { [k \in {} |-> 0],
      [k \in { <<"b">> \o <<",", " ">> \o Lower(DefaultCity) } |->
          [latitude |-> Some(5), longitude |-> Some(6)]] }

\* "if not address or not address.strip()"
IsBlankAddress(address) == Len(address) = 0 \/ Len(Strip(address)) = 0

\* f"{address.strip()}, {city}"
FullAddress(address, city) == Strip(address) \o <<",", " ">> \o city

\* variant: the key keeps the case of the address
CacheKeyAsWritten(full_address) == full_address

\* "cache_key = full_address.lower()"
CacheKey(full_address) == Lower(full_address)

\* "if cache and cache_key in cache"
IsCached(c, cache_key) == DOMAIN c # {} /\ cache_key \in DOMAIN c

\* the return of the cached branch: both coordinates or (None, None)
CachedResult(entry) ==
    IF entry.latitude # None /\ entry.longitude # None
    THEN Some([lat |-> entry.latitude[1], lng |-> entry.longitude[1]])
    ELSE None

\* the services asked for a new address, in order
ServicesAsked(nominatim) ==
    IF USE_FREE_GEOCODING
    THEN IF nominatim = None /\ GOOGLE_MAPS_API_KEY
         THEN <<"nominatim", "google">> ELSE <<"nominatim">>
    ELSE IF GOOGLE_MAPS_API_KEY THEN <<"google", "nominatim">> ELSE <<"nominatim">>

\* lat, lng after "Try geocoding services"
Geocoded(nominatim, google) ==
    IF USE_FREE_GEOCODING
    THEN IF nominatim = None /\ GOOGLE_MAPS_API_KEY THEN google ELSE nominatim
    ELSE IF GOOGLE_MAPS_API_KEY /\ google # None THEN google ELSE nominatim

\* the requests of one call
RequestsOf(call, services, full_address) ==
    [n \in 1..Len(services) |->
        [call |-> call, service |-> services[n], address |-> full_address]]

\* the cache entry written for a result
Entry(coordinates) ==
    IF coordinates = None THEN [latitude |-> None, longitude |-> None]
    ELSE [latitude |-> Some(coordinates[1].lat), longitude |-> Some(coordinates[1].lng)]

InitGeo ==
    /\ SegmenterIdle
    /\ InsertIdle
    /\ AiIdle
    /\ DocIdle
    /\ GOOGLE_MAPS_API_KEY \in BOOLEAN
    /\ cache \in LoadedCaches
    /\ queries = <<>>
    /\ geocode_calls = <<>>

\* what a call leaves in the history
Called(address, city, returned) ==
    geocode_calls' = Append(geocode_calls,
                            [address |-> address, city |-> city, returned |-> returned])

\* geocode_address with an empty or blank address
GeocodeBlank ==
    /\ Len(geocode_calls) < MaxCalls
    /\ \E address \in Addresses, city \in Cities :
          /\ IsBlankAddress(address)
          /\ Called(address, city, None)
    /\ UNCHANGED <<GOOGLE_MAPS_API_KEY, cache, queries,
                   segmenter_vars, insert_vars, ai_vars, doc_vars>>

\* geocode_address answered from the cache
GeocodeCached ==
    /\ Len(geocode_calls) < MaxCalls
    /\ \E address \in Addresses, city \in Cities :
          /\ ~IsBlankAddress(address)
          /\ IsCached(cache, CacheKey(FullAddress(address, city)))
          /\ Called(address, city,
                    CachedResult(cache[CacheKey(FullAddress(address, city))]))
    /\ UNCHANGED <<GOOGLE_MAPS_API_KEY, cache, queries,
                   segmenter_vars, insert_vars, ai_vars, doc_vars>>

\* geocode_address asking the services and caching what they answered
GeocodeFresh ==
    /\ Len(geocode_calls) < MaxCalls
    /\ \E address \in Addresses, city \in Cities,
          nominatim \in NominatimAnswers, google \in GoogleAnswers :
          /\ ~IsBlankAddress(address)
          /\ ~IsCached(cache, CacheKey(FullAddress(address, city)))
          /\ queries' = queries \o RequestsOf(Len(geocode_calls) + 1,
                                              ServicesAsked(nominatim),
                                              FullAddress(address, city))
          /\ cache' = Put(cache, CacheKey(FullAddress(address, city)),
                          Entry(Geocoded(nominatim, google)))
          /\ Called(address, city, Geocoded(nominatim, google))
    /\ UNCHANGED <<GOOGLE_MAPS_API_KEY, segmenter_vars, insert_vars, ai_vars, doc_vars>>

NextGeo ==
    \/ GeocodeBlank
    \/ GeocodeCached
    \/ GeocodeFresh

SpecGeo == InitGeo /\ [][NextGeo]_vars

(***************************************************************************)
(* docx_to_database.py: process_document, step by step, with every request *)
(* it sends to the remote store (the storage bucket and the three tables)  *)
(*                                                                         *)
(* A file of the bucket is named by the placeholder id of its image.       *)
(***************************************************************************)
\* the most images in the document
MaxImages == 2

ImageIds == {"img_1", "img_2", "img_3"}

\* image_data: at most MaxImages images with different ids
ImageLists ==
    { s \in UNION { [1..n -> ImageIds] : n \in 0..MaxImages } :
        \A i, j \in 1..Len(s) : s[i] = s[j] => i = j }

\* what the remote store holds before the run
InitialBucket == {"img_1"}
InitialDatabase == << [table |-> "bandit", row |-> "old"] >>

\* the rows the steps 5 to 7 may hand to the insert
FinalDataChoices ==
    { <<>>, << [table |-> "bandit", row |-> "new"] >>,
      << [table |-> "bandit", row |-> "new"], [table |-> "event", row |-> "new"] >> }

\* a write request to the remote store
Write(op, target) == [op |-> op, target |-> target]

\* variant: the upload is not held back by DRY_RUN
UploadsAlways(dry_run) == TRUE

\* "if not DRY_RUN:" in upload_images_to_supabase
Uploads(dry_run) == ~dry_run

\* "if EMPTY_BUCKET_BEFORE_UPLOAD and not DRY_RUN:"
EmptiesBucket(empty_first, dry_run) == empty_first /\ ~dry_run

\* "if not DRY_RUN:" before insert_to_database
Inserts(dry_run) == ~dry_run

\* the truncate requests of truncate_database_tables
TruncateWrites ==
    << Write("delete", "bandit_event"), Write("delete", "event"),
       Write("delete", "bandit") >>

\* the insert requests of insert_to_database, one for each row
InsertWrites(rows) == [n \in 1..Len(rows) |-> Write("insert", rows[n].table)]

InitDoc ==
    /\ SegmenterIdle
    /\ InsertIdle
    /\ AiIdle
    /\ GeoIdle
    /\ DRY_RUN \in BOOLEAN
    /\ EMPTY_BUCKET_BEFORE_UPLOAD \in BOOLEAN
    /\ supabase \in BOOLEAN
    /\ bucket = InitialBucket
    /\ database = InitialDatabase
    /\ remote_writes = <<>>
    /\ image_data \in ImageLists
    /\ existing_files = {}
    /\ image_index = 1
    /\ image_urls = {}
    /\ final_data = <<>>
    /\ doc_pc = "convert"

\* step 1, convert_docx_to_pdf: the PDF is there or an exception ends the run
ConvertPdf ==
    /\ doc_pc = "convert"
    /\ \E found \in BOOLEAN : doc_pc' = IF found THEN "empty_bucket" ELSE "failed"
    /\ UNCHANGED <<DRY_RUN, EMPTY_BUCKET_BEFORE_UPLOAD, supabase, bucket, database,
                   remote_writes, image_data, existing_files, image_index,
                   image_urls, final_data,
                   segmenter_vars, insert_vars, ai_vars, geo_vars>>

\* step 2 when empty_bucket() is called with a client and files to delete:
\* remove() is sent; the files it, or its one-by-one fallback, deleted go
EmptyBucket ==
    /\ doc_pc = "empty_bucket"
    /\ EmptiesBucket(EMPTY_BUCKET_BEFORE_UPLOAD, DRY_RUN)
    /\ supabase
    /\ bucket # {}
    /\ \E removed \in SUBSET bucket : bucket' = bucket \ removed
    /\ remote_writes' = Append(remote_writes, Write("remove", "bucket"))
    /\ doc_pc' = "extract"
    /\ UNCHANGED <<DRY_RUN, EMPTY_BUCKET_BEFORE_UPLOAD, supabase, database,
                   image_data, existing_files, image_index, image_urls, final_data,
                   segmenter_vars, insert_vars, ai_vars, geo_vars>>

\* step 2 when nothing is removed: emptying is off, or there is no client,
\* or the listing failed or found no file
SkipEmptyBucket ==
    /\ doc_pc = "empty_bucket"
    /\ doc_pc' = "extract"
    /\ UNCHANGED <<DRY_RUN, EMPTY_BUCKET_BEFORE_UPLOAD, supabase, bucket, database,
                   remote_writes, image_data, existing_files, image_index,
                   image_urls, final_data,
                   segmenter_vars, insert_vars, ai_vars, geo_vars>>

\* steps 3 to 4b, all local, and the head of upload_images_to_supabase:
\* without a client it returns {}, with one it lists the folder (or fails to)
ExtractAndList ==
    /\ doc_pc = "extract"
    /\ \E raised_here \in BOOLEAN, listed \in BOOLEAN :
          /\ doc_pc' = IF raised_here THEN "failed"
                       ELSE IF supabase THEN "upload" ELSE "ai"
          /\ existing_files' = IF ~raised_here /\ supabase /\ listed THEN bucket ELSE {}
    /\ UNCHANGED <<DRY_RUN, EMPTY_BUCKET_BEFORE_UPLOAD, supabase, bucket, database,
                   remote_writes, image_data, image_index, image_urls, final_data,
                   segmenter_vars, insert_vars, ai_vars, geo_vars>>

\* one turn of the upload loop for a file that is listed: its URL is read
UseExisting ==
    /\ doc_pc = "upload"
    /\ image_index <= Len(image_data)
    /\ image_data[image_index] \in existing_files
    /\ image_urls' = image_urls \cup {image_data[image_index]}
    /\ image_index' = image_index + 1
    /\ UNCHANGED <<DRY_RUN, EMPTY_BUCKET_BEFORE_UPLOAD, supabase, bucket, database,
                   remote_writes, image_data, existing_files, final_data, doc_pc,
                   segmenter_vars, insert_vars, ai_vars, geo_vars>>

\* one turn of the upload loop for a file that is not listed and not sent:
\* DRY_RUN holds it back, or preparing the image raised
HoldBack ==
    /\ doc_pc = "upload"
    /\ image_index <= Len(image_data)
    /\ image_data[image_index] \notin existing_files
    /\ image_index' = image_index + 1
    /\ UNCHANGED <<DRY_RUN, EMPTY_BUCKET_BEFORE_UPLOAD, supabase, bucket, database,
                   remote_writes, image_data, existing_files, image_urls,
                   final_data, doc_pc,
                   segmenter_vars, insert_vars, ai_vars, geo_vars>>

\* one turn of the upload loop that sends the file: it is stored, or it is
\* there already, or the upload fails
UploadImage ==
    /\ doc_pc = "upload"
    /\ image_index <= Len(image_data)
    /\ image_data[image_index] \notin existing_files
    /\ Uploads(DRY_RUN)
    /\ remote_writes' = Append(remote_writes,
                               Write("upload", image_data[image_index]))
    /\ \E outcome \in {"stored", "already exists", "error"} :
          /\ bucket' = IF outcome = "stored"
                       THEN bucket \cup {image_data[image_index]} ELSE bucket
          /\ image_urls' = IF outcome = "error" THEN image_urls
                           ELSE image_urls \cup {image_data[image_index]}
    /\ image_index' = image_index + 1
    /\ UNCHANGED <<DRY_RUN, EMPTY_BUCKET_BEFORE_UPLOAD, supabase, database,
                   image_data, existing_files, final_data, doc_pc,
                   segmenter_vars, insert_vars, ai_vars, geo_vars>>

\* steps 5 to 7 after the upload loop: process_with_ai, combine, geocode
ProcessAndGeocode ==
    /\ doc_pc = "upload" => image_index > Len(image_data)
    /\ doc_pc \in {"upload", "ai"}
    /\ \E raised_here \in BOOLEAN, rows \in FinalDataChoices :
          /\ doc_pc' = IF raised_here THEN "failed" ELSE "insert"
          /\ final_data' = IF raised_here THEN final_data ELSE rows
    /\ UNCHANGED <<DRY_RUN, EMPTY_BUCKET_BEFORE_UPLOAD, supabase, bucket, database,
                   remote_writes, image_data, existing_files, image_index,
                   image_urls,
                   segmenter_vars, insert_vars, ai_vars, geo_vars>>

\* step 8 when insert_to_database runs with a client: the tables are
\* truncated and a row is inserted for each record, as far as each succeeds
InsertToDatabase ==
    /\ doc_pc = "insert"
    /\ Inserts(DRY_RUN)
    /\ supabase
    /\ remote_writes' = remote_writes \o TruncateWrites \o InsertWrites(final_data)
    /\ \E truncated \in BOOLEAN, inserted \in SUBSET (1..Len(final_data)) :
          database' = (IF truncated THEN <<>> ELSE database)
                      \o SelectSeq([n \in 1..Len(final_data) |->
                                       IF n \in inserted THEN final_data[n]
                                       ELSE [table |-> "none", row |-> "none"]],
                                   LAMBDA r : r.table # "none")
    /\ doc_pc' = "statistics"
    /\ UNCHANGED <<DRY_RUN, EMPTY_BUCKET_BEFORE_UPLOAD, supabase, bucket,
                   image_data, existing_files, image_index, image_urls, final_data,
                   segmenter_vars, insert_vars, ai_vars, geo_vars>>

\* step 8 when insert_to_database finds no client and raises
InsertNotConfigured ==
    /\ doc_pc = "insert"
    /\ Inserts(DRY_RUN)
    /\ ~supabase
    /\ doc_pc' = "failed"
    /\ UNCHANGED <<DRY_RUN, EMPTY_BUCKET_BEFORE_UPLOAD, supabase, bucket, database,
                   remote_writes, image_data, existing_files, image_index,
                   image_urls, final_data,
                   segmenter_vars, insert_vars, ai_vars, geo_vars>>

\* step 8 skipped
SkipInsert ==
    /\ doc_pc = "insert"
    /\ ~Inserts(DRY_RUN)
    /\ doc_pc' = "statistics"
    /\ UNCHANGED <<DRY_RUN, EMPTY_BUCKET_BEFORE_UPLOAD, supabase, bucket, database,
                   remote_writes, image_data, existing_files, image_index,
                   image_urls, final_data,
                   segmenter_vars, insert_vars, ai_vars, geo_vars>>

\* step 9, print_statistics: the tables are only read
PrintStatistics ==
    /\ doc_pc = "statistics"
    /\ doc_pc' = "finished"
    /\ UNCHANGED <<DRY_RUN, EMPTY_BUCKET_BEFORE_UPLOAD, supabase, bucket, database,
                   remote_writes, image_data, existing_files, image_index,
                   image_urls, final_data,
                   segmenter_vars, insert_vars, ai_vars, geo_vars>>

NextDoc ==
    \/ ConvertPdf
    \/ EmptyBucket
    \/ SkipEmptyBucket
    \/ ExtractAndList
    \/ UseExisting
    \/ HoldBack
    \/ UploadImage
    \/ ProcessAndGeocode
    \/ InsertToDatabase
    \/ InsertNotConfigured
    \/ SkipInsert
    \/ PrintStatistics

SpecDoc == InitDoc /\ [][NextDoc]_vars

(***************************************************************************)
(* Vocabulary of the properties                                            *)
(***************************************************************************)
LineIndices == 0..(Len(lines) - 1)
LineAt(i) == lines[i + 1]

\* the run has passed the matcher call of extract_text_with_placeholders
Extracted == pc = "extracted"
\* the run has passed the matcher call of split_text_by_bandits
Walked == pc \in {"walked", "done"}
Returned == pc = "done" /\ raised = "none"

\* the lines the backward scan from age line i may look at (start_index 0)
Window(i) == {j \in LineIndices : j < i /\ j >= i - 9}
HasNameInWindow(i) == \E j \in Window(i) : IsNameLine(Strip(LineAt(j)))
HasImageInWindow(i) == \E j \in Window(i) : IsImageLine(Strip(LineAt(j)))

Composite(p) == <<p.name, p.age, p.image_id>>
\* the (name, age, image id) split_text_by_bandits reads back from a key
KeyComposite(key) ==
    LET info == ParseBandit(key) IN <<info.name, info.age, info.image_id>>

\* stripped length of the text of a chunk
ContentLength(section) == Len(Strip(SectionText(lines, section)))
\* a chunk is a non-empty run of consecutive line indices
IsRun(section) ==
    /\ section # <<>>
    /\ \A m \in 1..(Len(section) - 1) : section[m + 1] = section[m] + 1
AllLines == [k \in 1..Len(lines) |-> k - 1]

(***************************************************************************)
(* C1                                                                      *)
(***************************************************************************)
\* C1: for every input text and every detected list, split_text_by_bandits
\* returns a list of chunks and never raises
C1_NeverRaises == raised = "none"

(***************************************************************************)
(* C2                                                                      *)
(***************************************************************************)
NoAgeMarker == \A i \in LineIndices : ~Contains(LineAt(i), AgeLiteral)

\* C2 (matcher half): a text with no "Age:" in any line gives an empty
\* match list
C2_NoAgeNoMatch ==
    NoAgeMarker => /\ (Extracted => patterns = <<>>)
                   /\ (Walked => all_patterns = <<>>)

\* C2: a text with no "Age:" in any line gives an empty match list, and
\* split_text_by_bandits, when it returns, returns the fixed-chunk split of
\* the lines and not the section list of the walk
C2_NoAgeFixedChunks ==
    NoAgeMarker =>
        /\ (Walked => all_patterns = <<>>)
        /\ (Returned => /\ path = "fixed"
                        /\ result = FixedFrom(lines, ChunkSize(lines), 0, <<>>))

(***************************************************************************)
(* C3                                                                      *)
(***************************************************************************)
\* the text is not empty: some line has a character that is not whitespace
\* (the weakest reading of "non-empty" for the threshold, which strips)
HasText == \E i \in LineIndices : Strip(LineAt(i)) # <<>>

\* C3: for a non-empty text, whenever the walk leaves no section, the
\* fallback returns at least one chunk
C3_FallbackNonEmpty ==
    (Returned /\ HasText /\ sections = <<>>) => result # <<>>

(***************************************************************************)
(* C4, C5                                                                  *)
(***************************************************************************)
\* C4: after the deduplication no two entries of the detected-records list
\* have the same (name, age, image id)
C4_UniqueComposites ==
    Extracted =>
        \A j, k \in 1..Len(found_bandits) :
            j # k => KeyComposite(found_bandits[j]) # KeyComposite(found_bandits[k])

\* C4 witness: the matcher returned the same composite twice and the list
\* holds it once
C4_Witness ==
    /\ Extracted
    /\ \E j, k \in 1..Len(patterns) :
          j < k /\ Composite(patterns[j]) = Composite(patterns[k])
    /\ Len(found_bandits) < Len(patterns)

\* positions of the matches that are the first with their composite
FirstOccurrences ==
    {k \in 1..Len(patterns) :
        \A j \in 1..(k - 1) : Composite(patterns[j]) # Composite(patterns[k])}

\* C5: the detected-records list is the list of the first occurrences of
\* the distinct (name, age, image id) among the matches, in match order,
\* each read back from its key as that same composite; so matches that
\* differ in the image id alone are all kept
C5_FirstOccurrencesKept ==
    Extracted =>
        LET first == Sorted(FirstOccurrences)
        IN  /\ Len(found_bandits) = Len(first)
            /\ \A m \in 1..Len(first) :
                  KeyComposite(found_bandits[m]) =
                      <<patterns[first[m]].name,
                        Some(patterns[first[m]].age),
                        Some(patterns[first[m]].image_id)>>

\* C5 witness: two matches with the same name and age and different image
\* ids, both in the list
C5_Witness ==
    /\ Extracted
    /\ \E j, k \in 1..Len(patterns) :
          /\ patterns[j].name = patterns[k].name
          /\ patterns[j].age = patterns[k].age
          /\ patterns[j].image_id # patterns[k].image_id
          /\ BanditKey(patterns[j]) \in Range(found_bandits)
          /\ BanditKey(patterns[k]) \in Range(found_bandits)

(***************************************************************************)
(* C6                                                                      *)
(***************************************************************************)
AgeLines == {i \in LineIndices : IsAgeLine(LineAt(i))}
NameLines == {i \in LineIndices : IsNameLine(Strip(LineAt(i)))}
ImageLines == {i \in LineIndices : IsImageLine(Strip(LineAt(i)))}
TheOne(S) == CHOOSE x \in S : TRUE

\* the text holds exactly one image line, one name line and one age line,
\* in this order, the image line at most 9 lines above the age line
OneTriple ==
    /\ Cardinality(AgeLines) = 1
    /\ Cardinality(NameLines) = 1
    /\ Cardinality(ImageLines) = 1
    /\ TheOne(ImageLines) < TheOne(NameLines)
    /\ TheOne(NameLines) < TheOne(AgeLines)
    /\ TheOne(AgeLines) - TheOne(ImageLines) <= 9

\* the match the three lines spell out
TripleMatch(m, n, a) ==
    [line_index |-> m,
     image_id |-> ImageSearch(Strip(LineAt(m)))[1],
     name |-> Strip(LineAt(n)),
     age |-> AgeSearch(LineAt(a))[1],
     name_line_index |-> n,
     image_line |-> Strip(LineAt(m)),
     age_line_index |-> a]

\* C6: on a text with exactly one well-formed triple the matcher returns
\* exactly one match: the image id, name and age of the three lines, with
\* the indices of the image line and of the name line
C6_OneTripleOneMatch ==
    ((Extracted \/ Walked) /\ OneTriple) =>
        LET one == <<TripleMatch(TheOne(ImageLines), TheOne(NameLines),
                                 TheOne(AgeLines))>>
        IN  /\ (Extracted => patterns = one)
            /\ (Walked => all_patterns = one)
            /\ (Walked /\ SubSeq(lines, 1, 3) = <<ImageA, Maria, Age30>>)
                  => /\ all_patterns[1].image_id = <<"a","_","1">>
                     /\ all_patterns[1].name = <<"M","a","r","i","a">>
                     /\ all_patterns[1].age = <<"3","0">>
                     /\ all_patterns[1].line_index = 0
                     /\ all_patterns[1].name_line_index = 1

\* C6 witness: the matcher has run on a text with exactly one triple
C6_Witness == OneTriple /\ Walked /\ Len(all_patterns) = 1

(***************************************************************************)
(* C7                                                                      *)
(***************************************************************************)
\* line i starts a section: split_text_by_bandits found a detected bandit
\* for its image (read once all_patterns is set)
Confirmed(i) ==
    DetectedBanditAt(lines, all_patterns, BanditInfo(detected_bandits), i) # None

\* the text after line 0, stripped, has at least 100 characters
TrailingText ==
    Len(Strip(Join(SubSeq(lines, 2, Len(lines)), Newline))) >= 100

MatchesOf(found, i) == {k \in 1..Len(found) : found[k].age_line_index = i}

MatcherSound(found) ==
    /\ \A i \in AgeLines :
          (~HasNameInWindow(i) \/ ~HasImageInWindow(i)) => MatchesOf(found, i) = {}
    /\ \A k \in 1..Len(found) :
          /\ found[k].age_line_index \in AgeLines
          /\ found[k].name_line_index \in Window(found[k].age_line_index)
          /\ IsNameLine(Strip(LineAt(found[k].name_line_index)))
          /\ found[k].name = Strip(LineAt(found[k].name_line_index))
          /\ found[k].line_index \in Window(found[k].age_line_index)
          /\ IsImageLine(Strip(LineAt(found[k].line_index)))

\* C8: an age line whose window lacks a name line or an image line yields
\* no match, and every match has a name line and an image line in the
\* window of its own age line
C8_NoNameOrImageNoMatch ==
    /\ (Extracted => MatcherSound(patterns))
    /\ (Walked => MatcherSound(all_patterns))

\* C8 witness: the matcher ran over an age line that has an image line but
\* no name line in its window, and returned no match for it
C8_Witness ==
    /\ Walked
    /\ \E i \in AgeLines :
          /\ ~HasNameInWindow(i)
          /\ HasImageInWindow(i)
          /\ MatchesOf(all_patterns, i) = {}

(***************************************************************************)
(* C9                                                                      *)
(***************************************************************************)
\* C9: every chunk returned, on either path, has more than 100 characters
\* of stripped text, and every accumulator of the walk with 100 or fewer
\* is dropped
C9_ChunksAboveThreshold ==
    /\ pc = "done" =>
          \A k \in 1..Len(result) : ContentLength(result[k]) > 100
    /\ Walked =>
          /\ \A k \in 1..Len(sections) : ContentLength(sections[k]) > 100
          /\ \A k \in 1..Len(closed) :
                (closed[k] # <<>> /\ ContentLength(closed[k]) <= 100)
                    => closed[k] \notin Range(sections)

\* C9 witness: the walk dropped an accumulator at a record start and kept a
\* later section
C9_Witness ==
    /\ pc = "done"
    /\ path = "sections"
    /\ \E k \in 1..(Len(closed) - 1) :
          closed[k] # <<>> /\ closed[k] \notin Range(sections)

\* the fixed-chunk path returned a chunk
C9_FixedWitness == pc = "done" /\ path = "fixed" /\ result # <<>>

(***************************************************************************)
(* C10                                                                     *)
(***************************************************************************)
\* C10: the chunks returned are runs of consecutive input lines, and each
\* chunk ends before the next one starts
C10_DisjointOrdered ==
    pc = "done" =>
        /\ \A k \in 1..Len(result) :
              IsRun(result[k]) /\ Range(result[k]) \subseteq LineIndices
        /\ \A k \in 1..(Len(result) - 1) :
              result[k][Len(result[k])] < result[k + 1][1]

\* C10 witness: two chunks were returned
C10_Witness == pc = "done" /\ Len(result) >= 2

(***************************************************************************)
(* C11                                                                     *)
(***************************************************************************)
\* the input lines some returned chunk holds
Covered == UNION {Range(result[k]) : k \in 1..Len(result)}
FirstCovered == result[1][1]
LastCovered == result[Len(result)][Len(result[Len(result)])]

\* C11: no input line lying between two returned chunks is missing from the
\* output: every line from the first line of the first chunk to the last
\* line of the last chunk is in some chunk
C11_InnerLinesCovered ==
    (Returned /\ result # <<>>) =>
        \A i \in LineIndices :
            (FirstCovered <= i /\ i <= LastCovered) => i \in Covered

(***************************************************************************)
(* C12                                                                     *)
(***************************************************************************)
\* C12: the accumulators of the walk, kept or dropped, concatenated in the
\* order they were closed, are the input lines: every line once, in order
C12_RoundTrip == Walked => Concat(closed) = AllLines

\* C12 witness: the walk closed an accumulator it dropped and one it kept,
\* and passed an image line that started no record
C12_Witness ==
    /\ Walked
    /\ sections # <<>>
    /\ \E k \in 1..Len(closed) :
          closed[k] # <<>> /\ closed[k] \notin Range(sections)
    /\ \E i \in LineIndices :
          Contains(LineAt(i), ImageLiteral) /\ ~Confirmed(i)

(***************************************************************************)
(* C13                                                                     *)
(***************************************************************************)
\* a list of matches is in line order: the age lines strictly increase and
\* the image lines never decrease
InLineOrder(found) ==
    \A k \in 1..(Len(found) - 1) :
        /\ found[k].age_line_index < found[k + 1].age_line_index
        /\ found[k].line_index <= found[k + 1].line_index

\* C13: find_bandit_patterns_in_lines returns its matches in line order
\* (and returns: the list is a finite sequence with one match per age line
\* at most), whatever start_index and max_bandits it is given
C13_MatchesInLineOrder ==
    /\ (Extracted => InLineOrder(patterns) /\ Len(patterns) <= Len(lines))
    /\ (Walked => InLineOrder(all_patterns) /\ Len(all_patterns) <= Len(lines))
    /\ (pc = "found" =>
           InLineOrder(found_patterns) /\ Len(found_patterns) <= Len(lines))

\* C13 witness: the matcher returned three matches, two of them with the
\* same image line
C13_Witness ==
    /\ Walked
    /\ Len(all_patterns) >= 3
    /\ \E k \in 1..(Len(all_patterns) - 1) :
          all_patterns[k].line_index = all_patterns[k + 1].line_index

(***************************************************************************)
(* C14                                                                     *)
(***************************************************************************)
\* the first n matches of the scan run without a maximum
FirstMatches(n) ==
    SubSeq(find_bandit_patterns_in_lines(lines, start_index, None), 1, n)
UnboundedCount ==
    Len(find_bandit_patterns_in_lines(lines, start_index, None))
Min2(a, b) == IF a <= b THEN a ELSE b

\* C14: called with a maximum M >= 0, the matcher returns at most M
\* matches, and they are the first M matches of the scan run without a
\* maximum
C14_AtMostMax ==
    (pc = "found" /\ max_bandits # None) =>
        /\ Len(found_patterns) <= max_bandits[1]
        /\ found_patterns = FirstMatches(Min2(max_bandits[1], UnboundedCount))

\* C14 (M >= 1): the same, for a maximum that is not 0
C14_AtMostPositiveMax ==
    (pc = "found" /\ max_bandits # None /\ max_bandits[1] >= 1) =>
        /\ Len(found_patterns) <= max_bandits[1]
        /\ found_patterns = FirstMatches(Min2(max_bandits[1], UnboundedCount))

\* a maximum cut the scan short
C14_CutShort ==
    /\ pc = "found"
    /\ max_bandits # None
    /\ max_bandits[1] >= 1
    /\ Len(found_patterns) < UnboundedCount

(***************************************************************************)
(* C15                                                                     *)
(***************************************************************************)
\* the chunks "for i in range(0, len(lines), chunk_size)" cuts, before the
\* test on their length drops any
RECURSIVE SlicesFrom(_, _, _, _)
SlicesFrom(text_lines, chunk_size, i, chunks) ==
    IF i >= Len(text_lines) THEN chunks
    ELSE SlicesFrom(text_lines, chunk_size, i + chunk_size,
                    Append(chunks, Slice(text_lines, i, chunk_size)))

FixedSlices == SlicesFrom(lines, ChunkSize(lines), 0, <<>>)

\* C15: on the fallback path the lines are cut into FallbackParts chunks,
\* whatever the number of lines, and all chunks have the same number of
\* lines
C15_FixedEqualChunks ==
    (pc = "done" /\ path = "fixed") =>
        /\ Len(FixedSlices) = FallbackParts
        /\ \A k \in 1..Len(FixedSlices) :
              Len(FixedSlices[k]) = Len(FixedSlices[1])

(***************************************************************************)
(* C16                                                                     *)
(***************************************************************************)
\* what a call of split_text_by_bandits leaves
Outcome ==
    [all_patterns |-> all_patterns, sections |-> sections,
     result |-> result, path |-> path, raised |-> raised]

Starts == {closed[k][1] : k \in 2..Len(closed)}

\* the (name, age, image id) the detected list holds
DetectedComposites ==
    {KeyComposite(detected_bandits[k]) : k \in 1..Len(detected_bandits)}

\* line i is the image line of a match whose (name, age, image id) is in
\* the detected list
IsConfirmedTrigger(i) ==
    \E k \in 1..Len(all_patterns) :
        /\ all_patterns[k].line_index = i
        /\ <<all_patterns[k].name, Some(all_patterns[k].age),
             Some(all_patterns[k].image_id)>> \in DetectedComposites

\* C17: the walk starts a new chunk at a line exactly when the line is the
\* image line of some match whose (name, age, image id) is in the detected
\* list
C17_StartsAtConfirmedTriggers ==
    Walked => Starts = {i \in LineIndices : IsConfirmedTrigger(i)}

\* C17 (pipeline): the same, when the detected list is the one
\* extract_text_with_placeholders made from the same lines
C17_PipelineStarts ==
    (Walked /\ detected_bandits # <<>> /\ detected_bandits = found_bandits) =>
        Starts = {i \in LineIndices : IsConfirmedTrigger(i)}

\* the second of two matches with one image line is in the detected list,
\* the first is not, and no chunk starts at the image line
C17_SecondMatchIgnored ==
    /\ Walked
    /\ \E j, k \in 1..Len(all_patterns) :
          /\ j < k
          /\ all_patterns[j].line_index = all_patterns[k].line_index
          /\ all_patterns[k].line_index \notin Starts
          /\ IsConfirmedTrigger(all_patterns[k].line_index)

(***************************************************************************)
(* C18                                                                     *)
(***************************************************************************)
\* C18: every chunk the pattern-based path returns starts at a line where
\* the walk found a confirmed record, and holds no other such line
C18_ChunksStartAtTriggers ==
    (pc = "done" /\ path = "sections") =>
        \A k \in 1..Len(result) :
            /\ Confirmed(result[k][1])
            /\ \A m \in 2..Len(result[k]) : ~Confirmed(result[k][m])

\* C18 (all chunks but the one of the lines before the first record): the
\* same, for every chunk that does not start at line 0
C18_LaterChunksStartAtTriggers ==
    (pc = "done" /\ path = "sections") =>
        \A k \in 1..Len(result) :
            /\ (result[k][1] # 0 => Confirmed(result[k][1]))
            /\ \A m \in 2..Len(result[k]) : ~Confirmed(result[k][m])

(***************************************************************************)
(* C19                                                                     *)
(***************************************************************************)
\* the image line, the name line and the age line of every match of a list
\* come in this order
InPatternOrder(found) ==
    \A k \in 1..Len(found) :
        /\ found[k].line_index < found[k].name_line_index
        /\ found[k].name_line_index < found[k].age_line_index

\* C19: in every match the image line comes before the name line, which
\* comes before the age line
C19_ImageNameAgeOrder ==
    /\ (Extracted => InPatternOrder(patterns))
    /\ (Walked => InPatternOrder(all_patterns))
    /\ (pc = "found" => InPatternOrder(found_patterns))

\* C19 (age last): in every match the image line and the name line are two
\* lines above the age line
C19_AgeLast ==
    Walked =>
        \A k \in 1..Len(all_patterns) :
            /\ all_patterns[k].line_index < all_patterns[k].age_line_index
            /\ all_patterns[k].name_line_index < all_patterns[k].age_line_index
            /\ all_patterns[k].line_index # all_patterns[k].name_line_index

(***************************************************************************)
(* C20                                                                     *)
(***************************************************************************)
\* the matches of a list took the nearest name line and the nearest image
\* line above their age line
TookNearest(found) ==
    \A k \in 1..Len(found) :
        /\ IsNameLine(Strip(LineAt(found[k].name_line_index)))
        /\ IsImageLine(Strip(LineAt(found[k].line_index)))
        /\ \A j \in LineIndices :
              (found[k].name_line_index < j /\ j < found[k].age_line_index)
                  => ~IsNameLine(Strip(LineAt(j)))
        /\ \A j \in LineIndices :
              (found[k].line_index < j /\ j < found[k].age_line_index)
                  => ~IsImageLine(Strip(LineAt(j)))

\* C20: in every match the name line is the nearest name line above the
\* age line and the image line is the nearest image line above it, whether
\* the backward scan stopped early or ran to the end of its window
C20_NearestNameAndImage ==
    /\ (Extracted => TookNearest(patterns))
    /\ (Walked => TookNearest(all_patterns))
    /\ (pc = "found" => TookNearest(found_patterns))

\* C20 witness: a match whose scan passed a second name line before it
\* found the image line, and a match whose scan stopped early with lines
\* of its window left
C20_Witness ==
    /\ Walked
    /\ \E k \in 1..Len(all_patterns) :
          \E j \in Window(all_patterns[k].age_line_index) :
              /\ all_patterns[k].line_index < j
              /\ j < all_patterns[k].name_line_index
              /\ IsNameLine(Strip(LineAt(j)))
    /\ \E k \in 1..Len(all_patterns) :
          \E j \in Window(all_patterns[k].age_line_index) :
              /\ j < all_patterns[k].line_index
              /\ j < all_patterns[k].name_line_index

(***************************************************************************)
(* C21                                                                     *)
(***************************************************************************)
\* line j is above the age line a, at most 9 lines above it, and neither
\* before the offset st nor before line 0
InReach(j, a, st) == j < a /\ a - j <= 9 /\ j >= st /\ j >= 0

Bounded(found, st) ==
    \A k \in 1..Len(found) :
        /\ InReach(found[k].line_index, found[k].age_line_index, st)
        /\ InReach(found[k].name_line_index, found[k].age_line_index, st)

\* C21: in every match the image line and the name line lie strictly
\* before the age line, at most 9 lines before it, and never before the
\* start offset or before line 0
C21_SearchBounded ==
    /\ (Extracted => Bounded(patterns, 0))
    /\ (Walked => Bounded(all_patterns, 0))
    /\ (pc = "found" => Bounded(found_patterns, start_index))

\* C21 witness: a scan from offset 1 returned a match whose image line is
\* line 1, the first line it may look at
C21_Witness ==
    /\ pc = "found"
    /\ start_index = 1
    /\ \E k \in 1..Len(found_patterns) : found_patterns[k].line_index = 1

(***************************************************************************)
(* C22                                                                     *)
(***************************************************************************)
\* the age lines with a name line and an image line in their window
Matchable == {i \in AgeLines : HasNameInWindow(i) /\ HasImageInWindow(i)}

\* every age line that has a name line and an image line in its window has
\* its own match in the list, whatever lines the other matches hold
EachMarkerMatched(found) ==
    /\ \A i \in Matchable : Cardinality(MatchesOf(found, i)) = 1
    /\ Len(found) = Cardinality(Matchable)

\* C22: matching consumes no line and removes no duplicate: every age
\* marker with a name line and an image line in its window yields its own
\* match, also when another match holds the same image line, the same name
\* line or the same (name, age, image id)
C22_NoLineConsumed ==
    /\ (Extracted => EachMarkerMatched(patterns))
    /\ (Walked => EachMarkerMatched(all_patterns))

\* C22 witness: two matches hold the same image line and two hold the same
\* name line
C22_Witness ==
    /\ Walked
    /\ \E j, k \in 1..Len(all_patterns) :
          j < k /\ all_patterns[j].line_index = all_patterns[k].line_index
    /\ \E j, k \in 1..Len(all_patterns) :
          j < k /\ all_patterns[j].name_line_index = all_patterns[k].name_line_index

\* two matches with the same (name, age, image id) are both in the list
C22_DuplicateKept ==
    /\ Walked
    /\ \E j, k \in 1..Len(all_patterns) :
          j < k /\ Composite(all_patterns[j]) = Composite(all_patterns[k])

(***************************************************************************)
(* C23                                                                     *)
(***************************************************************************)
IsCapital(c) == \E n \in 1..26 : c = UpperLetters[n]
IsLetter(c) == \E n \in 1..26 : c = UpperLetters[n] \/ c = LowerLetters[n]

\* s is one token of letters only, with a capital first and 2 characters
\* or more
IsCapitalizedWord(s) ==
    /\ Len(s) >= 2
    /\ IsCapital(s[1])
    /\ \A k \in 1..Len(s) : IsLetter(s[k])

\* the number of tokens of a line: the starts of its runs of characters
\* that are not whitespace
TokenCount(s) ==
    Cardinality({k \in 1..Len(s) :
                    /\ ~IsSpace(s[k])
                    /\ (k = 1 \/ IsSpace(s[k - 1]))})

WellNamed(found) ==
    \A k \in 1..Len(found) :
        /\ IsCapitalizedWord(found[k].name)
        /\ TokenCount(LineAt(found[k].name_line_index)) = 1
        /\ ~Contains(LineAt(found[k].name_line_index), ImageLiteral)
        /\ \E a, b \in 0..Len(LineAt(found[k].name_line_index)) :
              LineAt(found[k].name_line_index) =
                  [x \in 1..a |-> " "] \o found[k].name \o [x \in 1..b |-> " "]

\* C23: the name of every match is one token of letters only that starts
\* with a capital and has at least 2 characters, and its line holds that
\* token alone: no second token and no image placeholder
C23_NameIsOneCapitalizedWord ==
    /\ (Extracted => WellNamed(patterns))
    /\ (Walked => WellNamed(all_patterns))
    /\ (pc = "found" => WellNamed(found_patterns))

\* C23 witness: a match took its name from a line with spaces around the
\* word, and its scan passed a line of two tokens and a line of one token
\* that is no capitalized word
C23_Witness ==
    /\ Walked
    /\ \E k \in 1..Len(all_patterns) :
          /\ LineAt(all_patterns[k].name_line_index) # all_patterns[k].name
          /\ \E i, j \in Window(all_patterns[k].age_line_index) :
                /\ i > all_patterns[k].line_index
                /\ j > all_patterns[k].line_index
                /\ TokenCount(LineAt(i)) = 2
                /\ TokenCount(LineAt(j)) = 1
                /\ ~IsCapitalizedWord(Strip(LineAt(j)))

(***************************************************************************)
(* C29                                                                     *)
(***************************************************************************)
\* the key of each match of a list, parsed the way split_text_by_bandits
\* parses it, is the (name, age, image id) of the match, and two matches
\* with one key have one (name, age, image id)
KeysRoundTrip(found) ==
    /\ \A k \in 1..Len(found) :
          /\ ParseBandit(BanditKey(found[k])).name = found[k].name
          /\ ParseBandit(BanditKey(found[k])).age = Some(found[k].age)
          /\ ParseBandit(BanditKey(found[k])).image_id = Some(found[k].image_id)
          /\ ParseBandit(BanditKey(found[k])).full_key = BanditKey(found[k])
    /\ \A j, k \in 1..Len(found) :
          BanditKey(found[j]) = BanditKey(found[k]) =>
              /\ found[j].name = found[k].name
              /\ found[j].age = found[k].age
              /\ found[j].image_id = found[k].image_id

\* C29: for every match the matcher produces, the key name_age_imageid
\* parses back to exactly the name, the age and the image id of the match,
\* and equal keys come from equal (name, age, image id)
C29_KeyRoundTrip ==
    /\ (Extracted => KeysRoundTrip(patterns))
    /\ (Walked => KeysRoundTrip(all_patterns))

\* C29 witness: the key of a match whose image id holds an underscore is
\* in the detected list, beside the key of a match with another image id
C29_Witness ==
    /\ Extracted
    /\ \E j, k \in 1..Len(patterns) :
          /\ Contains(patterns[j].image_id, Underscore)
          /\ BanditKey(patterns[j]) \in Range(found_bandits)
          /\ patterns[k].image_id # patterns[j].image_id

(***************************************************************************)
(* C30                                                                     *)
(***************************************************************************)
\* the positions, in the list of the scan from offset 0, of the matches
\* whose age line, name line and image line are all at or after offset st
AtOrAfter(full, st) ==
    {k \in 1..Len(full) :
        /\ full[k].age_line_index >= st
        /\ full[k].name_line_index >= st
        /\ full[k].line_index >= st}

\* those matches, in the order of the list
MatchesAtOrAfter(full, st) ==
    [m \in 1..Cardinality(AtOrAfter(full, st)) |->
        full[Sorted(AtOrAfter(full, st))[m]]]

\* C30: the scan from offset s returns exactly the matches of the scan
\* from offset 0 whose age line, name line and image line all lie at or
\* after s, in the same order
C30_RestartConsistent ==
    (pc = "found" /\ max_bandits = None) =>
        found_patterns =
            MatchesAtOrAfter(find_bandit_patterns_in_lines(lines, 0, None),
                             start_index)

\* C30 witness: a scan from an offset inside the text returned a match and
\* left out a match of the full scan whose age line it passed
C30_Witness ==
    /\ pc = "found"
    /\ max_bandits = None
    /\ start_index > 0
    /\ found_patterns # <<>>
    /\ \E k \in 1..Len(find_bandit_patterns_in_lines(lines, 0, None)) :
          /\ find_bandit_patterns_in_lines(lines, 0, None)[k].age_line_index
                 >= start_index
          /\ find_bandit_patterns_in_lines(lines, 0, None)[k].line_index
                 < start_index

(***************************************************************************)
(* C24                                                                     *)
(***************************************************************************)
\* the rows of a table that the run inserted
NewRows(table) == { n \in 1..Len(tables[table]) : tables[table][n].of # 0 }

\* new_id is the id of the row the run inserted for the record whose
\* original id is old_id
IsNewIdOf(table, records, new_id, old_id) ==
    \E n \in NewRows(table) :
       /\ tables[table][n].id = new_id
       /\ records[tables[table][n].of].id = old_id

\* C24: every bandit_event row the run inserted carries, as bandit_id and as
\* event_id, the new UUIDs of the rows inserted for the bandit and for the
\* event that the original ids of its relationship name, whichever inserts
\* succeeded and failed
C24_LinksOwnRecords ==
    \A n \in NewRows("bandit_event") :
       /\ IsNewIdOf("bandit", data.bandit, tables.bandit_event[n].bandit_id,
                    data.bandit_events[tables.bandit_event[n].of].bandit_id)
       /\ IsNewIdOf("event", data.events, tables.bandit_event[n].event_id,
                    data.bandit_events[tables.bandit_event[n].of].event_id)

\* C24, the case with no failed insert before the record: the link is right
C24_LinksOwnWhenAllInserted ==
    (Len(bandit_ids) = Len(data.bandit) /\ Len(event_ids) = Len(data.events))
       => C24_LinksOwnRecords

\* a relationship was inserted after an earlier bandit insert had failed
C24_FailedBefore ==
    /\ NewRows("bandit_event") # {}
    /\ Len(bandit_ids) < Len(data.bandit)

(***************************************************************************)
(* C25                                                                     *)
(***************************************************************************)
\* the id a record carries, as record.get(key) reads it
IdRead(record, key) == IF key \in DOMAIN record THEN <<record[key]>> ELSE <<>>

\* C25: the result of process_with_ai holds at most max_bandits bandits, the
\* bandit_id of every relationship in it is the id of a bandit in it, and
\* every event in it is the event_id of a relationship in it (an id is what
\* get('id') reads)
C25_ResultClosedAndBounded ==
    ai_pc = "returned" =>
       /\ Len(structured_data.bandit) <= ai_max_bandits
       /\ \A r \in 1..Len(structured_data.bandit_events) :
             \E b \in 1..Len(structured_data.bandit) :
                IdRead(structured_data.bandit[b], "id")
                   = IdRead(structured_data.bandit_events[r], "bandit_id")
       /\ \A e \in 1..Len(structured_data.events) :
             \E r \in 1..Len(structured_data.bandit_events) :
                IdRead(structured_data.bandit_events[r], "event_id")
                   = IdRead(structured_data.events[e], "id")

\* a result that lost a bandit to the maximum and, with it, a relationship
\* and an event, and kept a relationship together with its event
C25_Witness ==
    /\ ai_pc = "returned"
    /\ Len(structured_data.bandit) = ai_max_bandits
    /\ Len(structured_data.bandit) < Len(all_bandits)
    /\ Len(structured_data.bandit_events) >= 1
    /\ Len(structured_data.bandit_events) < Len(all_bandit_events)
    /\ Len(structured_data.events) >= 1
    /\ Len(structured_data.events) < Len(all_events)

(***************************************************************************)
(* C26                                                                     *)
(***************************************************************************)
\* the service call raised, or the text it returned is no JSON document
\* once the code fence around it is taken off
IsFailure(outcome) ==
    \/ outcome = ApiError
    \/ outcome \in { Response(Sorry), Response(Truncated),
                     Response(FencedThenNewline) }

\* C26: a turn of the loop whose AI call fails or whose response is not
\* valid JSON leaves all_bandits, all_events and all_bandit_events as they
\* were and goes on to the next chunk
C26_FailedChunkSkipped ==
    [][ (Len(responses') = Len(responses) + 1 /\ IsFailure(responses'[Len(responses')]))
          => /\ all_bandits' = all_bandits
             /\ all_events' = all_events
             /\ all_bandit_events' = all_bandit_events
             /\ chunk_index' = chunk_index + 1
             /\ ai_pc' = "chunks" ]_vars

\* a failed chunk after a chunk that gave records and before another one
\* that gave records: the records of both are in the accumulated lists
C26_Witness ==
    /\ Len(responses) = 3
    /\ responses[1] = Response(Plain)
    /\ IsFailure(responses[2])
    /\ responses[3] = Response(Fenced)
    /\ all_bandits = <<Ann, Bob, Cleo>>
    /\ Len(all_events) = 3
    /\ Len(all_bandit_events) = 4

(***************************************************************************)
(* C27                                                                     *)
(***************************************************************************)
\* the calls that passed an address
WithAddress ==
    { n \in 1..Len(geocode_calls) : Len(Strip(geocode_calls[n].address)) > 0 }

\* the normalized address of a call: 'address, city' in lower case
Normalized(n) ==
    Lower(Strip(geocode_calls[n].address) \o <<",", " ">> \o geocode_calls[n].city)

\* the call sent a request to a service
Queried(n) == \E q \in 1..Len(queries) : queries[q].call = n

\* C27: of the calls that share the cache and a normalized address only the
\* first can send requests to the services, and every later one returns
\* what the first returned, coordinates or nothing
C27_QueriedAtMostOnce ==
    \A i, j \in WithAddress :
       (i < j /\ Normalized(i) = Normalized(j))
          => /\ ~Queried(j)
             /\ geocode_calls[j].returned = geocode_calls[i].returned

\* an address the services failed on, then asked for again in another case:
\* the second call sent nothing and returned nothing; and a third call for
\* another address that was geocoded
C27_Witness ==
    /\ Len(geocode_calls) = 3
    /\ geocode_calls[1].address # geocode_calls[2].address
    /\ geocode_calls[1].city # geocode_calls[2].city
    /\ Normalized(1) = Normalized(2)
    /\ Queried(1)
    /\ ~Queried(2)
    /\ geocode_calls[2].returned = None
    /\ Queried(3)
    /\ geocode_calls[3].returned # None

\* coordinates found by the first call come back from the cache in the second
C27_CachedCoordinates ==
    /\ Len(geocode_calls) >= 2
    /\ Normalized(1) = Normalized(2)
    /\ Queried(1)
    /\ ~Queried(2)
    /\ geocode_calls[2].returned = Some([lat |-> 3, lng |-> 4])

(***************************************************************************)
(* C28                                                                     *)
(***************************************************************************)
\* C28: while DRY_RUN is true process_document sends no write request to the
\* remote store (no upload, no removal of bucket files, no truncation, no
\* insert) at any step, and the bucket and the tables stay as they were
C28_DryRunWritesNothing ==
    DRY_RUN =>
       /\ remote_writes = <<>>
       /\ bucket = InitialBucket
       /\ database = InitialDatabase

\* a dry run that went through every step with a client, with emptying of
\* the bucket asked for, an image that is not in the bucket and rows to insert
C28_Witness ==
    /\ DRY_RUN
    /\ doc_pc = "finished"
    /\ supabase
    /\ EMPTY_BUCKET_BEFORE_UPLOAD
    /\ Len(image_data) = 2
    /\ image_index = 3
    /\ image_urls = {"img_1"}
    /\ Len(final_data) = 2

\* a run with DRY_RUN off that uploaded, truncated and inserted
C28_WetRunWrites ==
    /\ ~DRY_RUN
    /\ doc_pc = "finished"
    /\ \E n \in 1..Len(remote_writes) : remote_writes[n].op = "upload"
    /\ \E n \in 1..Len(remote_writes) : remote_writes[n].op = "insert"
    /\ \E n \in 1..Len(remote_writes) : remote_writes[n].op = "remove"

====
